---- MODULE Spec2Model ----
(***************************************************************************)
(* Client-side runtime of the Copper Tech site (src/js/script.js with the  *)
(* configuration of js/config.js): fragment loading, page initialization,  *)
(* the project carousel and the menu overlay, as state machines.           *)
(***************************************************************************)
EXTENDS Integers, Sequences, FiniteSets, TLC

\* ------------------------------------------------------------------------
\* Static configuration (AppConfig)
\* ------------------------------------------------------------------------

\* AppConfig.components: placeholder element id -> component path.
Components ==
    ("nav-placeholder" :> "components/nav.html") @@
    ("footer-placeholder" :> "components/footer.html") @@
    ("cta-placeholder" :> "components/cta.html")

ComponentIds == DOMAIN Components

\* AppConfig.projectCards: ordered list of card paths.
ProjectCards ==
    << "components/project-navy-pacific.html",
       "components/project-camper-van.html" >>

CardPaths == { ProjectCards[k] : k \in 1..Len(ProjectCards) }

\* AppConfig.selectors.projectCardsList
ProjectCardsList == ".project-cards-list"

\* AppConfig.messages
ComponentLoadError == "Component failed to load. Please refresh the page."
ProjectCardLoadError == "Failed to load project card. Some projects may not be displayed."

\* AppConfig.rotatingIndustry.industries
Industries ==
    << "Military & Defense", "Remote Businesses", "Residential Homes",
       "Emergency Response", "Job Sites" >>

\* One load per placeholder (named by its element id) and per card (named by
\* its path).
LoadIds == ComponentIds \cup CardPaths

\* Every element whose content the loader writes.
Targets == ComponentIds \cup {ProjectCardsList}

\* ------------------------------------------------------------------------
\* Bounds
\* ------------------------------------------------------------------------

\* At most this many controller setups throw in one page load.
MaxFaults == 1

\* At most this many slides are rendered in the card list.
MaxSlides == 3

\* At most this many clear timers of the live region are pending at once.
MaxPendingClears == 2

\* At most this many links are in the menu overlay.
MaxLinks == 3

\* At most this many drag-flag reset timers are pending at once.
MaxSwipeTimers == 1

\* At most this many resize timers are pending at once.
MaxResizeTimers == 2

\* A run of consecutive trigger activations is followed up to this length.
MaxActivations == 3

\* At most this many first-tick timers, and this many repeating timers, of the
\* rotating heading are live at once.
MaxRotationTimers == 2

\* At most this many accordion items are on the page.
MaxItems == 3

\* At most this many content elements are on the page.
MaxElements == 3

\* The additions of FADE_IN_CLASS to one content element are followed up to
\* this number.
MaxClassAdds == 2

\* At most this many automatic-resume timers of the rotating heading are
\* pending at once.
MaxResumeTimers == 2

\* At most this many direct calls of loadComponent and loadProjectCard are
\* followed.
MaxCalls == 2

\* ------------------------------------------------------------------------
\* State
\* ------------------------------------------------------------------------

VARIABLES
    \* --- page and fragment loader ---
    configDefined,    \* AppConfig is defined (js/config.js was loaded)
    elementPresent,   \* the targets that exist in this page's document
    hasCarousel,      \* the page has a .carousel-slides element
    hasRotatingText,  \* the page has a #rotating-industry-text element
    innerHTML,        \* target -> sequence of markup blocks it holds
    promise,          \* load -> "notCalled" | "pending" | "true" | "false"
    fetchIssued,      \* the loads that issued a network request
    fetchOutcome,     \* load -> how its fetch ended ("none" while it has not)
    icState,          \* initializeComponents: "notCalled" | "awaiting" | "resolved" | "rejected"
    pc,               \* the DOMContentLoaded handler's position
    loaded,           \* document.body carries the "loaded" class
    initialized,      \* the controllers whose initialization ran to its end
    faulted,          \* the controllers whose initialization threw (and caught it)
    rafPending,       \* the carousel's requestAnimationFrame callback is pending
    \* --- announcer (the shared live region) ---
    liveText,         \* the live region's text content
    pendingClears,    \* the number of pending clear timers
    \* --- carousel ---
    paginationEl,     \* the page has a .carousel-pagination element
    slideCount,       \* the .project-showcase elements rendered in the card list
    slideWidth,       \* the first slide's offsetWidth, as the layout reports it
    gap,              \* the card list's computed gap, as the layout reports it
    carState,         \* "uninit" | "ready" | "skipped"
    totalSlides,      \* slides.length, fixed by initializeCarousel
    currentSlide,     \* the carousel's current index
    translateX,       \* the translation applied to the card list, in px
    activeSlides,     \* the slides that carry "active-slide"
    dotCount,         \* the pagination dots in the pagination container
    activeDots,       \* the pagination dots that carry "active"
    touchStartX,      \* where the current gesture started
    touchStartY,
    touching,         \* a finger is down on the carousel
    isSwiping,        \* the drag flag
    classifiedDrag,   \* a move of the latest gesture classified it as a drag
    swipeResetTimers, \* the number of pending drag-flag reset timers
    resizeTimers,     \* the resize timers that are pending
    \* --- menu overlay ---
    menuBtnEl,        \* cachedElements.menuBtn exists
    menuOverlayEl,    \* cachedElements.menuOverlay exists
    linkCount,        \* the links of the overlay (menuLinks.length)
    menuState,        \* initializeMenuOverlay: "uninit" | "ready" | "skipped"
    overlayActive,    \* the overlay carries "active"
    btnActive,        \* the trigger button carries "active"
    ariaExpanded,     \* the trigger button's aria-expanded attribute
    bodyOverflow,     \* document.body.style.overflow ("unset" before any write)
    previousActiveElement, \* the element openMenu stored ("null" when none)
    activeElement,    \* document.activeElement ("body" when nothing has focus)
    trapAttached,     \* trapFocus is a key-down listener of the overlay
    focusBeforeOpen,  \* the element that had focus when the overlay was last opened
    triggerRun,       \* consecutive trigger activations made from Closed (-1: none running)
    \* --- rotating heading ---
    rotatingWordEl,   \* the heading holds its word and word-container elements
    rotState,         \* initializeRotatingIndustry: "uninit" | "ready" | "skipped"
    currentIndex,     \* the index of the displayed industry (0-based, as in the code)
    rotatingWord,     \* the word element's text ("static": the page's own markup)
    fadeOut,          \* the word element carries "fade-out"
    fadeIn,           \* the word element carries "fade-in"
    isPaused,         \* the pause flag
    rotationTimer,    \* the rotationTimer handle is set (not null)
    initialTimeout,   \* the initialTimeout handle is set (not null)
    firstTickTimers,  \* the live first-tick timers
    intervalTimers,   \* the live repeating timers
    swapPending,      \* a tick's word-swap timer is pending (the fade window)
    fadeInPending,    \* a swap's fade-in removal timer is pending
    resumeTimers,     \* the pending automatic-resume timers
    hovering,         \* the pointer is over the heading
    swapInterrupted,  \* pauseRotation ran during the pending swap's fade window
    \* --- accordion ---
    accordionCount,   \* the .accordion-button elements of the page
    accPanels,        \* the items whose content panel (aria-controls) exists
    accState,         \* initializeAccordions: "uninit" | "ready" | "skipped"
    accExpanded,      \* the items whose button has aria-expanded = "true"
    accShown,         \* the items whose panel has aria-hidden = "false"
    \* --- fade-in of the content elements ---
    elementsToAnimate, \* the elements matched by ANIMATION_ELEMENTS_SELECTOR
    observerSupported, \* typeof IntersectionObserver !== 'undefined'
    inViewport,       \* the content elements whose bounding box is in the viewport
    fadeInState,      \* initializeFadeInAnimations: "uninit" | "frame" | "ready"
    fadeInClass,      \* the content elements that carry FADE_IN_CLASS
    observing,        \* the targets of the IntersectionObserver
    classAdds,        \* how often FADE_IN_CLASS was added to each content element
    \* --- direct calls of the loader ---
    calls,            \* the calls of loadComponent / loadProjectCard made so far
    lastCall          \* the operation the last step performed, with its inputs

pageVars == << configDefined, elementPresent, hasCarousel, hasRotatingText,
               innerHTML, promise, fetchIssued, fetchOutcome, icState, pc,
               loaded, initialized, faulted, rafPending >>

announcerVars == << liveText, pendingClears >>

carouselVars == << paginationEl, slideCount, slideWidth, gap, carState, totalSlides,
                   currentSlide, translateX, activeSlides, dotCount, activeDots,
                   touchStartX, touchStartY, classifiedDrag, touching, isSwiping,
                   swipeResetTimers, resizeTimers >>

menuVars == << menuBtnEl, menuOverlayEl, linkCount, menuState, overlayActive,
               btnActive, ariaExpanded, bodyOverflow, previousActiveElement,
               activeElement, trapAttached, focusBeforeOpen, triggerRun >>

rotationVars == << rotatingWordEl, rotState, currentIndex, rotatingWord, fadeOut,
                   fadeIn, isPaused, rotationTimer, initialTimeout, firstTickTimers,
                   intervalTimers, swapPending, fadeInPending, resumeTimers,
                   hovering, swapInterrupted >>

\* The state of the controllers that keep no state in common with the loader,
\* the carousel and the overlay.
accordionVars == << accordionCount, accPanels, accState, accExpanded, accShown >>

loaderVars == << calls >>

revealVars == << elementsToAnimate, observerSupported, inViewport, fadeInState, fadeInClass,
                observing, classAdds >>

widgetVars == << rotationVars, accordionVars, loaderVars, revealVars >>

vars == << pageVars, announcerVars, carouselVars, menuVars, widgetVars, lastCall >>

\* The operation a step performed: its name, the index it was given, the
\* deltas of the gesture it ended (0 where they do not apply), and, for a
\* navigation call, whether the step before it made the same call.
Call(op, index, dx, dy) ==
    [ op |-> op, index |-> index, dx |-> dx, dy |-> dy,
      again |-> (op \in {"goToSlide", "nextSlide", "prevSlide"}
                 /\ lastCall.op = op /\ lastCall.index = index) ]

\* A step whose operation no property refers to.
OtherCall == Call("other", 0, 0, 0)

\* No operation yet.
NoCall == [op |-> "none", index |-> 0, dx |-> 0, dy |-> 0, again |-> FALSE]

\* ------------------------------------------------------------------------
\* Fragment loader
\* ------------------------------------------------------------------------

\* How a GET can end: a success status, a non-success status, a network error.
FetchOutcomes == {"ok", "httpError", "networkError"}

\* The static markup an element of the page holds before any load wrote to it.
StaticMarkup(target) == [kind |-> "static", text |-> target]

\* The markup a successful GET of `path` returns (the file's text, verbatim).
Markup(path) == [kind |-> "markup", text |-> path]

\* The error block handleComponentLoadError builds for `errorMessage`.
ErrorBlock(errorMessage) == [kind |-> "component-error", text |-> errorMessage]

\* The JavaScript values an argument of the loader can be: a string, a
\* number, undefined, null. `val` is the string itself, the number's decimal
\* form, and "" for the others.
JsString(s) == [type |-> "string", val |-> s]
JsNumber(n) == [type |-> "number", val |-> ToString(n)]
JsUndefined == [type |-> "undefined", val |-> ""]
JsNull == [type |-> "null", val |-> ""]

\* !v is false: a non-empty string, a number other than 0.
Truthy(v) ==
    CASE v.type = "string" -> v.val # ""
      [] v.type = "number" -> v.val # "0"
      [] OTHER -> FALSE

\* typeof v
TypeOf(v) == IF v.type = "null" THEN "object" ELSE v.type

fetchHTMLIgnoreStatus(componentPath, outcome) ==
    IF ~Truthy(componentPath) \/ TypeOf(componentPath) # "string"
    THEN [threw |-> TRUE, html |-> Markup("")]
    ELSE IF outcome = "networkError" THEN [threw |-> TRUE, html |-> Markup("")]
    ELSE IF outcome = "httpError" THEN [threw |-> FALSE, html |-> Markup("error page")]
    ELSE [threw |-> FALSE, html |-> Markup(componentPath.val)]

\* fetchHTML: throws on an invalid path, on a network error (fetch rejects) and
\* on a non-success status (!response.ok); otherwise returns the response text.
fetchHTML(componentPath, outcome) ==
    IF ~Truthy(componentPath) \/ TypeOf(componentPath) # "string"
    THEN [threw |-> TRUE, html |-> Markup("")]
    ELSE IF outcome = "networkError" THEN [threw |-> TRUE, html |-> Markup("")]
    ELSE IF outcome = "httpError" THEN [threw |-> TRUE, html |-> Markup("")]
    ELSE [threw |-> FALSE, html |-> Markup(componentPath.val)]

validateComponentParamNonEmpty(paramValue) == paramValue.val # ""

\* validateComponentParam (paramType is 'string' in every call): a non-empty
\* string is valid, every other value is not.
validateComponentParam(paramValue) ==
    ~(~Truthy(paramValue) \/ TypeOf(paramValue) # "string")

\* handleComponentLoadError: the target's content after the error block was
\* inserted, by replacement (innerHTML) or at the end (insertAdjacentHTML).
handleComponentLoadError(content, errorMessage, insertMethod) ==
    IF insertMethod = "innerHTML"
    THEN << ErrorBlock(errorMessage) >>
    ELSE Append(content, ErrorBlock(errorMessage))

LoadComponentStartNoLookup(elementId, componentPath) ==
    IF ~validateComponentParam(elementId) THEN "false"
    ELSE IF ~validateComponentParam(componentPath) THEN "false"
    ELSE "pending"

\* loadComponent up to its await: "false" on an invalid argument or a missing
\* element, "pending" once the fetch is issued.
LoadComponentStart(elementId, componentPath) ==
    IF ~validateComponentParam(elementId) THEN "false"
    ELSE IF ~validateComponentParam(componentPath) THEN "false"
    ELSE IF elementId.val \notin elementPresent THEN "false"
    ELSE "pending"

\* loadProjectCard up to its await.
LoadProjectCardStart(containerSelector, componentPath) ==
    IF ~validateComponentParam(containerSelector) THEN "false"
    ELSE IF ~validateComponentParam(componentPath) THEN "false"
    ELSE IF containerSelector.val \notin elementPresent THEN "false"
    ELSE "pending"

LoadComponentCatchKeep(content) == content

\* loadComponent's catch block: the content of the element after a failed fetch.
LoadComponentCatch(content) ==
    handleComponentLoadError(content, ComponentLoadError, "innerHTML")

\* loadComponent after its await: [content, result] for the element.
LoadComponentFinish(content, componentPath, outcome) ==
    LET r == fetchHTML(componentPath, outcome) IN
    IF ~r.threw
    THEN [content |-> << r.html >>, result |-> "true"]
    ELSE [content |-> LoadComponentCatch(content), result |-> "false"]

\* loadProjectCard after its await: [content, result] for the container.
LoadProjectCardFinish(content, componentPath, outcome) ==
    LET r == fetchHTML(componentPath, outcome) IN
    IF ~r.threw
    THEN [content |-> Append(content, r.html), result |-> "true"]
    ELSE [content |-> handleComponentLoadError(content, ProjectCardLoadError,
                                               "insertAdjacentHTML"),
          result |-> "false"]

PromiseAllStrict(promises) ==
    IF \E l \in DOMAIN promises : promises[l] = "pending"
    THEN "pending"
    ELSE IF \E l \in DOMAIN promises : promises[l] = "false"
         THEN "rejected"
         ELSE "resolved"

PromiseRace(promises) ==
    IF \A l \in DOMAIN promises : promises[l] = "pending"
    THEN "pending"
    ELSE "resolved"

\* Promise.allSettled over the promises initializeComponents collected:
\* pending while one of them is, resolved otherwise (it never rejects).
PromiseAllSettled(promises) ==
    IF \E l \in DOMAIN promises : promises[l] = "pending"
    THEN "pending"
    ELSE "resolved"

\* The promises initializeComponents collects: every placeholder load, and the
\* card loads when the card container exists.
ComponentPromises == { l \in LoadIds : promise[l] # "notCalled" }

\* ------------------------------------------------------------------------
\* Direct calls of the loader
\* ------------------------------------------------------------------------

\* The two load functions.
LoadFunctions == {"loadComponent", "loadProjectCard"}

\* Arguments that are not a non-empty string: the empty string, a truthy
\* value of another type, a falsy value of another type.
InvalidTargetArgs == { JsString(""), JsNumber(42), JsNull }
InvalidPathArgs == { JsString(""), JsNumber(42), JsUndefined }

\* The first arguments a call is followed with: an element id for
\* loadComponent, a selector for loadProjectCard.
TargetArgs(fn) ==
    InvalidTargetArgs \cup
        IF fn = "loadComponent"
        THEN { JsString("nav-placeholder"), JsString("cta-placeholder") }
        ELSE { JsString(ProjectCardsList) }

\* The second arguments a call is followed with.
PathArgs(fn) ==
    InvalidPathArgs \cup
        IF fn = "loadComponent"
        THEN { JsString(Components["nav-placeholder"]) }
        ELSE { JsString(ProjectCards[1]) }

\* fn(target, path) is called: the call runs to its first await or to its
\* return, whichever comes first.
LoadCalled(fn, target, path) ==
    /\ Len(calls) < MaxCalls
    /\ LET start == IF fn = "loadComponent"
                    THEN LoadComponentStart(target, path)
                    ELSE LoadProjectCardStart(target, path)
       IN calls' = Append(calls, [ fn |-> fn, target |-> target, path |-> path,
                                   result |-> start,
                                   fetched |-> (start = "pending"),
                                   outcome |-> "none" ])
    /\ lastCall' = OtherCall
    /\ UNCHANGED << pageVars, announcerVars, carouselVars, menuVars, rotationVars,
                    accordionVars, revealVars >>

\* Call c after its await, when its fetch ends with `outcome`: [content,
\* result] for its target.
CallFinish(c, outcome) ==
    IF c.fn = "loadComponent"
    THEN LoadComponentFinish(innerHTML[c.target.val], c.path, outcome)
    ELSE LoadProjectCardFinish(innerHTML[c.target.val], c.path, outcome)

\* The fetch of the i-th call ends with `outcome` and the call runs to its end.
CallSettles(i, outcome) ==
    /\ i \in DOMAIN calls
    /\ calls[i].result = "pending"
    /\ LET c == calls[i]
           fin == CallFinish(c, outcome)
       IN /\ innerHTML' = [innerHTML EXCEPT ![c.target.val] = fin.content]
          /\ calls' = [calls EXCEPT ![i].result = fin.result, ![i].outcome = outcome]
    /\ lastCall' = OtherCall
    /\ UNCHANGED << configDefined, elementPresent, hasCarousel, hasRotatingText,
                    promise, fetchIssued, fetchOutcome, icState, pc, loaded,
                    initialized, faulted, rafPending, announcerVars, carouselVars,
                    menuVars, rotationVars, accordionVars, revealVars >>

\* ------------------------------------------------------------------------
\* Page initialization (the DOMContentLoaded handler)
\* ------------------------------------------------------------------------

\* The controllers the handler initializes synchronously.
SyncControllers ==
    { "smoothScrolling", "navigationScroll", "menuOverlay", "fadeInAnimations",
      "rotatingIndustry", "bannerH1Click", "accordions", "copyrightYear" }

\* The controllers the handler calls on this page.
CalledControllers ==
    { c \in SyncControllers : c = "rotatingIndustry" => hasRotatingText }

\* The handler's steps after the page was marked loaded, in its order: the
\* controller setups, and the request of the frame that initializes the
\* carousel.
HandlerSteps ==
    << "smoothScrolling", "navigationScroll", "menuOverlay", "fadeInAnimations",
       "rotatingIndustry", "bannerH1Click", "requestCarouselFrame", "accordions",
       "copyrightYear" >>

CatchesOwnErrorsButMenu == SyncControllers \ {"menuOverlay"}

\* The controllers whose initialize function wraps its whole body in a
\* try/catch that logs the exception: every one of them.
CatchesOwnErrors == SyncControllers

\* The handler's steps from the k-th on, when the setups of the controllers in
\* `throwing` throw: an exception a controller catches itself ends that
\* controller's setup only; one it does not catch ends the handler's try block.
RECURSIVE RunSetups(_, _, _)
RunSetups(k, throwing, acc) ==
    IF k > Len(HandlerSteps) \/ acc.aborted THEN acc
    ELSE LET c == HandlerSteps[k] IN
         IF c = "requestCarouselFrame"
         THEN RunSetups(k + 1, throwing, [acc EXCEPT !.rafPending = hasCarousel])
         ELSE IF c \notin CalledControllers
         THEN RunSetups(k + 1, throwing, acc)
         ELSE IF c \notin throwing
         THEN RunSetups(k + 1, throwing, [acc EXCEPT !.initialized = @ \cup {c}])
         ELSE IF c \in CatchesOwnErrors
         THEN RunSetups(k + 1, throwing, [acc EXCEPT !.faulted = @ \cup {c}])
         ELSE [acc EXCEPT !.faulted = @ \cup {c}, !.aborted = TRUE]

HandlerCatchLogOnly ==
    /\ loaded' = loaded
    /\ pc' = "done"

\* The handler's catch block: the page is still marked loaded.
HandlerCatch ==
    /\ loaded' = TRUE
    /\ pc' = "done"

\* The handler from its start to the await of initializeComponents. When
\* AppConfig is not defined initializeComponents throws before any load is
\* issued and the handler's catch block runs.
DOMContentLoaded ==
    /\ pc = "start"
    /\ IF ~configDefined
       THEN /\ icState' = "rejected"
            /\ HandlerCatch
            /\ UNCHANGED << promise, fetchIssued >>
       ELSE /\ promise' =
                [l \in LoadIds |->
                    IF l \in ComponentIds
                    THEN LoadComponentStart(JsString(l), JsString(Components[l]))
                    ELSE IF ProjectCardsList \in elementPresent
                         THEN LoadProjectCardStart(JsString(ProjectCardsList),
                                                   JsString(l))
                         ELSE "notCalled"]
            /\ fetchIssued' = { l \in LoadIds : promise'[l] = "pending" }
            /\ icState' = "awaiting"
            /\ pc' = "await"
            /\ UNCHANGED loaded
    /\ UNCHANGED << configDefined, elementPresent, hasCarousel, hasRotatingText,
                    innerHTML, fetchOutcome, initialized, faulted, rafPending,
                    announcerVars, carouselVars, menuVars, widgetVars,
                    lastCall >>

\* A fetch settles, with the element of the placeholder loads held in one
\* place that the call made last has overwritten.
FetchSettlesSharedElement(l, outcome) ==
    /\ promise[l] = "pending"
    /\ LET target == IF l \in ComponentIds THEN "cta-placeholder" ELSE ProjectCardsList
           fin == IF l \in ComponentIds
                  THEN LoadComponentFinish(innerHTML[target], JsString(Components[l]),
                                           outcome)
                  ELSE LoadProjectCardFinish(innerHTML[target], JsString(l), outcome)
       IN /\ innerHTML' = [innerHTML EXCEPT ![target] = fin.content]
          /\ promise' = [promise EXCEPT ![l] = fin.result]
    /\ fetchOutcome' = [fetchOutcome EXCEPT ![l] = outcome]
    /\ UNCHANGED << configDefined, elementPresent, hasCarousel, hasRotatingText,
                    fetchIssued, icState, pc, loaded, initialized, faulted,
                    rafPending, announcerVars, carouselVars, menuVars, widgetVars,
                    lastCall >>

\* The fetch of load l ends with `outcome` and the load runs to its end.
FetchSettles(l, outcome) ==
    /\ promise[l] = "pending"
    /\ LET target == IF l \in ComponentIds THEN l ELSE ProjectCardsList
           fin == IF l \in ComponentIds
                  THEN LoadComponentFinish(innerHTML[target], JsString(Components[l]),
                                           outcome)
                  ELSE LoadProjectCardFinish(innerHTML[target], JsString(l), outcome)
       IN /\ innerHTML' = [innerHTML EXCEPT ![target] = fin.content]
          /\ promise' = [promise EXCEPT ![l] = fin.result]
    /\ fetchOutcome' = [fetchOutcome EXCEPT ![l] = outcome]
    /\ UNCHANGED << configDefined, elementPresent, hasCarousel, hasRotatingText,
                    fetchIssued, icState, pc, loaded, initialized, faulted,
                    rafPending, announcerVars, carouselVars, menuVars, widgetVars,
                    lastCall >>

\* The handler after the await: Promise.allSettled has settled, the page is
\* marked loaded and every controller is initialized; a controller whose setup
\* throws catches its own exception. The carousel is deferred to the next frame.
ComponentsSettled ==
    /\ pc = "await"
    /\ LET out == PromiseAllSettled([l \in ComponentPromises |-> promise[l]]) IN
       /\ out # "pending"
       /\ icState' = out
       /\ IF out = "resolved"
          THEN /\ loaded' = TRUE
               /\ \E F \in SUBSET CalledControllers :
                     /\ Cardinality(F) <= MaxFaults
                     /\ LET end == RunSetups(1, F, [initialized |-> {}, faulted |-> {},
                                                     rafPending |-> FALSE,
                                                     aborted |-> FALSE])
                        IN /\ faulted' = end.faulted
                           /\ initialized' = end.initialized
                           /\ rafPending' = end.rafPending
               /\ pc' = "done"
          ELSE /\ HandlerCatch
               /\ UNCHANGED << initialized, faulted, rafPending >>
    /\ UNCHANGED << configDefined, elementPresent, hasCarousel, hasRotatingText,
                    innerHTML, promise, fetchIssued, fetchOutcome,
                    announcerVars, carouselVars, menuVars, widgetVars,
                    lastCall >>

\* ------------------------------------------------------------------------
\* Announcer
\* ------------------------------------------------------------------------

\* announceToScreenReader on a record that holds the live region: the message
\* overwrites the region's text and one more clear timer is scheduled; an
\* empty message is refused.
announceToScreenReader(c, message) ==
    IF message = ""
    THEN c
    ELSE [c EXCEPT !.liveText = message, !.pendingClears = @ + 1]

ClearTimerFiresOwnMessage ==
    /\ pendingClears > 0
    /\ liveText' = IF pendingClears = 1 THEN "" ELSE liveText
    /\ pendingClears' = pendingClears - 1
    /\ lastCall' = OtherCall
    /\ UNCHANGED << pageVars, carouselVars, menuVars, widgetVars >>

\* A clear timer of the live region fires.
ClearTimerFires ==
    /\ pendingClears > 0
    /\ liveText' = ""
    /\ pendingClears' = pendingClears - 1
    /\ lastCall' = OtherCall
    /\ UNCHANGED << pageVars, carouselVars, menuVars, widgetVars >>

\* ------------------------------------------------------------------------
\* Carousel
\* ------------------------------------------------------------------------

\* Minimum distance for a swipe (swipeThreshold).
swipeThreshold == 50

\* Horizontal displacement beyond which a move is a drag (handleTouchMove).
dragThreshold == 10

\* The widths the layout may report for the first slide (0: not laid out).
SlideWidths == {0, 300}

\* The values the layout may report for the card list's gap.
ComputedGaps == {"normal", "20px"}

\* parseInt(computedStyle.gap) || 0
ParseGap(g) == IF g = "20px" THEN 20 ELSE 0

\* Screen coordinates of the touch events.
TouchStartXs == {100}
TouchStarts == { << 100, 100 >> }
TouchMoves == { << 89, 105 >>, << 90, 105 >>, << 89, 170 >> }
TouchEnds == { << 40, 105 >>, << 50, 105 >>, << 70, 105 >>, << 160, 105 >>,
               << 40, 170 >> }

\* The keys a key-down on the carousel may carry.
CarouselKeys == {"ArrowLeft", "ArrowRight", "Enter"}

Abs(n) == IF n < 0 THEN -n ELSE n

\* The carousel's closure state together with the DOM state it writes.
CarouselRec ==
    [ totalSlides |-> totalSlides, currentSlide |-> currentSlide,
      translateX |-> translateX, activeSlides |-> activeSlides,
      dotCount |-> dotCount, activeDots |-> activeDots,
      liveText |-> liveText, pendingClears |-> pendingClears ]

\* The next state holds the record c.
SetCarousel(c) ==
    /\ totalSlides' = c.totalSlides
    /\ currentSlide' = c.currentSlide
    /\ translateX' = c.translateX
    /\ activeSlides' = c.activeSlides
    /\ dotCount' = c.dotCount
    /\ activeDots' = c.activeDots
    /\ liveText' = c.liveText
    /\ pendingClears' = c.pendingClears
    /\ c.pendingClears <= MaxPendingClears

\* The announcement of a slide change.
SlideMessage(c) ==
    "Project " \o ToString(c.currentSlide + 1) \o " of " \o ToString(c.totalSlides)

\* updatePaginationDots: the dot at currentSlide is active, every other is not.
updatePaginationDots(c) ==
    [c EXCEPT !.activeDots = { d \in 0..(c.dotCount - 1) : d = c.currentSlide }]

createPaginationDotsOffByOne(c) ==
    IF c.totalSlides = 0
    THEN c
    ELSE updatePaginationDots([c EXCEPT !.dotCount = c.totalSlides - 1,
                                        !.activeDots = {}])

\* createPaginationDots: the container is cleared and holds one dot per slide.
createPaginationDots(c) ==
    IF c.totalSlides = 0
    THEN c
    ELSE updatePaginationDots([c EXCEPT !.dotCount = c.totalSlides,
                                        !.activeDots = {}])

goToSlideToggling(c, index, w, g) ==
    IF index < 0 \/ index >= c.totalSlides
    THEN c
    ELSE LET c1 == [c EXCEPT !.currentSlide = index] IN
         IF w <= 0
         THEN c1
         ELSE [c1 EXCEPT
                  !.translateX = (0 - index) * (w + ParseGap(g)),
                  !.activeSlides = IF index \in c.activeSlides THEN {} ELSE {index},
                  !.activeDots = { d \in 0..(c.dotCount - 1) : d = index },
                  !.liveText = "Project " \o ToString(index + 1)
                               \o " of " \o ToString(c.totalSlides),
                  !.pendingClears = @ + 1]

goToSlideClamped(c, index, w, g) ==
    LET c1 == [c EXCEPT !.currentSlide =
                            IF index < 0 THEN 0
                            ELSE IF index >= c.totalSlides THEN c.totalSlides - 1
                            ELSE index]
    IN IF w <= 0
       THEN c1
       ELSE LET c2 == [c1 EXCEPT
                          !.translateX = (0 - c1.currentSlide) * (w + ParseGap(g)),
                          !.activeSlides =
                              { i \in 0..(c1.totalSlides - 1) : i = c1.currentSlide }]
            IN announceToScreenReader(updatePaginationDots(c2), SlideMessage(c2))

\* goToSlide(index) under the layout (w, g).
goToSlide(c, index, w, g) ==
    IF index < 0 \/ index >= c.totalSlides
    THEN c
    ELSE LET c1 == [c EXCEPT !.currentSlide = index] IN
         IF w <= 0
         THEN c1
         ELSE LET c2 == [c1 EXCEPT
                            !.translateX = (0 - c1.currentSlide) * (w + ParseGap(g)),
                            !.activeSlides =
                                { i \in 0..(c1.totalSlides - 1) : i = c1.currentSlide }]
              IN announceToScreenReader(updatePaginationDots(c2), SlideMessage(c2))

nextSlideIncrementFirst(c, w, g) ==
    LET c1 == [c EXCEPT !.currentSlide = @ + 1] IN
    goToSlide(c1, c1.currentSlide, w, g)

\* nextSlide
nextSlide(c, w, g) ==
    IF c.currentSlide < c.totalSlides - 1
    THEN goToSlide(c, c.currentSlide + 1, w, g)
    ELSE c

prevSlideWrapping(c, w, g) ==
    goToSlide(c, IF c.currentSlide > 0 THEN c.currentSlide - 1 ELSE c.totalSlides - 1,
              w, g)

\* prevSlide
prevSlide(c, w, g) ==
    IF c.currentSlide > 0
    THEN goToSlide(c, c.currentSlide - 1, w, g)
    ELSE c

handleSwipeReversed(c, startX, startY, endX, endY, w, g) ==
    LET diffX == endX - startX
        diffY == Abs(startY - endY)
    IN IF Abs(diffX) > diffY /\ Abs(diffX) > swipeThreshold
       THEN IF diffX > 0 THEN nextSlide(c, w, g) ELSE prevSlide(c, w, g)
       ELSE c

\* handleSwipe's navigation for a gesture from (startX, startY) to (endX, endY).
handleSwipe(c, startX, startY, endX, endY, w, g) ==
    LET diffX == startX - endX
        diffY == Abs(startY - endY)
    IN IF Abs(diffX) > diffY /\ Abs(diffX) > swipeThreshold
       THEN IF diffX > 0 THEN nextSlide(c, w, g) ELSE prevSlide(c, w, g)
       ELSE c

initializeCarouselUnlessNoSlides ==
    IF slideCount = 0
    THEN carState' = "skipped"
         /\ UNCHANGED << totalSlides, currentSlide, translateX, activeSlides,
                         dotCount, activeDots, announcerVars >>
    ELSE /\ carState' = "ready"
         /\ LET c0 == [CarouselRec EXCEPT !.totalSlides = slideCount,
                                          !.currentSlide = 0]
            IN SetCarousel(goToSlide(createPaginationDots(c0), 0, slideWidth, gap))

\* initializeCarousel: nothing happens when an element or every slide is
\* missing; otherwise the state is set up, the dots are created and the first
\* slide is shown.
initializeCarousel ==
    IF ~hasCarousel \/ ProjectCardsList \notin elementPresent \/ ~paginationEl
    THEN carState' = "skipped"
         /\ UNCHANGED << totalSlides, currentSlide, translateX, activeSlides,
                         dotCount, activeDots, announcerVars >>
    ELSE IF slideCount = 0
    THEN carState' = "skipped"
         /\ UNCHANGED << totalSlides, currentSlide, translateX, activeSlides,
                         dotCount, activeDots, announcerVars >>
    ELSE /\ carState' = "ready"
         /\ LET c0 == [CarouselRec EXCEPT !.totalSlides = slideCount,
                                          !.currentSlide = 0]
            IN SetCarousel(goToSlide(createPaginationDots(c0), 0, slideWidth, gap))

\* The deferred frame callback: initializeCarousel runs (and catches its own
\* exception when its setup throws).
AnimationFrame ==
    /\ rafPending
    /\ rafPending' = FALSE
    /\ \E threw \in BOOLEAN :
          IF threw
          THEN /\ faulted' = faulted \cup {"carousel"}
               /\ UNCHANGED << initialized, carState, totalSlides, currentSlide,
                               translateX, activeSlides, dotCount, activeDots,
                               announcerVars >>
          ELSE /\ initialized' = initialized \cup {"carousel"}
               /\ initializeCarousel
               /\ UNCHANGED faulted
    /\ lastCall' = OtherCall
    /\ UNCHANGED << configDefined, elementPresent, hasCarousel, hasRotatingText,
                    innerHTML, promise, fetchIssued, fetchOutcome, icState, pc,
                    loaded, paginationEl, slideCount, slideWidth, gap,
                    touchStartX, touchStartY, classifiedDrag, touching, isSwiping,
                    swipeResetTimers, resizeTimers, menuVars, widgetVars >>

\* initializeCarousel is called outside the handler's frame callback.
InitializeCarouselCalled ==
    /\ carState = "uninit"
    /\ ~rafPending
    /\ "carousel" \notin faulted
    /\ initializeCarousel
    /\ lastCall' = OtherCall
    /\ UNCHANGED << pageVars, paginationEl, slideCount, slideWidth, gap,
                    touchStartX, touchStartY, classifiedDrag, touching, isSwiping,
                    swipeResetTimers, resizeTimers, menuVars, widgetVars >>

\* What every carousel event leaves alone.
CarouselFrame ==
    UNCHANGED << pageVars, widgetVars, menuVars, paginationEl, slideCount, slideWidth, gap,
                 carState >>

\* A pagination dot is clicked: goToSlide(i).
DotClick(i) ==
    /\ carState = "ready"
    /\ i \in 0..(dotCount - 1)
    /\ SetCarousel(goToSlide(CarouselRec, i, slideWidth, gap))
    /\ lastCall' = Call("goToSlide", i, 0, 0)
    /\ CarouselFrame
    /\ UNCHANGED << touchStartX, touchStartY, classifiedDrag, touching, isSwiping,
                    swipeResetTimers, resizeTimers >>

\* goToSlide(index) is called with any index, in range or not.
GoToSlideCalled(index) ==
    /\ carState = "ready"
    /\ SetCarousel(goToSlide(CarouselRec, index, slideWidth, gap))
    /\ lastCall' = Call("goToSlideCall", index, 0, 0)
    /\ CarouselFrame
    /\ UNCHANGED << touchStartX, touchStartY, classifiedDrag, touching, isSwiping,
                    swipeResetTimers, resizeTimers >>

\* A slide is clicked: goToSlide(index) unless the drag flag is set or the
\* slide is the current one.
SlideClick(index) ==
    /\ carState = "ready"
    /\ index \in 0..(totalSlides - 1)
    /\ IF ~isSwiping /\ index # currentSlide
       THEN SetCarousel(goToSlide(CarouselRec, index, slideWidth, gap))
       ELSE SetCarousel(CarouselRec)
    /\ lastCall' = Call("slideClick", index, 0, 0)
    /\ CarouselFrame
    /\ UNCHANGED << touchStartX, touchStartY, classifiedDrag, touching, isSwiping,
                    swipeResetTimers, resizeTimers >>

\* handleTouchStart
handleTouchStart(x, y) ==
    /\ carState = "ready"
    /\ ~touching
    /\ touching' = TRUE
    /\ touchStartX' = x
    /\ touchStartY' = y
    /\ isSwiping' = FALSE
    /\ classifiedDrag' = FALSE
    /\ lastCall' = OtherCall
    /\ CarouselFrame
    /\ UNCHANGED << totalSlides, currentSlide, translateX, activeSlides, dotCount,
                    activeDots, announcerVars, swipeResetTimers, resizeTimers >>

\* handleTouchMove
handleTouchMove(x, y) ==
    /\ carState = "ready"
    /\ touching
    /\ LET diffX == Abs(x - touchStartX)
           diffY == Abs(y - touchStartY)
       IN /\ isSwiping' = IF diffX > diffY /\ diffX > dragThreshold
                          THEN TRUE
                          ELSE isSwiping
          /\ classifiedDrag' = (classifiedDrag \/ (diffX > diffY /\ diffX > dragThreshold))
    /\ lastCall' = OtherCall
    /\ CarouselFrame
    /\ UNCHANGED << totalSlides, currentSlide, translateX, activeSlides, dotCount,
                    activeDots, announcerVars, touchStartX, touchStartY, touching,
                    swipeResetTimers, resizeTimers >>

\* handleTouchEnd: handleSwipe navigates and schedules the drag flag's reset.
handleTouchEnd(x, y) ==
    /\ carState = "ready"
    /\ touching
    /\ touching' = FALSE
    /\ SetCarousel(handleSwipe(CarouselRec, touchStartX, touchStartY, x, y,
                               slideWidth, gap))
    /\ swipeResetTimers < MaxSwipeTimers
    /\ swipeResetTimers' = swipeResetTimers + 1
    /\ lastCall' = Call("touchend", 0, x - touchStartX, y - touchStartY)
    /\ CarouselFrame
    /\ UNCHANGED << touchStartX, touchStartY, classifiedDrag, isSwiping, resizeTimers >>

\* The drag flag's reset timer fires.
SwipeResetFires ==
    /\ swipeResetTimers > 0
    /\ swipeResetTimers' = swipeResetTimers - 1
    /\ isSwiping' = FALSE
    /\ lastCall' = OtherCall
    /\ CarouselFrame
    /\ UNCHANGED << totalSlides, currentSlide, translateX, activeSlides, dotCount,
                    activeDots, announcerVars, touchStartX, touchStartY, classifiedDrag, touching,
                    resizeTimers >>

\* A key-down on the carousel: the arrow keys navigate.
CarouselKeyDown(key) ==
    /\ carState = "ready"
    /\ SetCarousel(IF key = "ArrowLeft" THEN prevSlide(CarouselRec, slideWidth, gap)
                   ELSE IF key = "ArrowRight" THEN nextSlide(CarouselRec, slideWidth, gap)
                   ELSE CarouselRec)
    /\ lastCall' = Call(IF key = "ArrowLeft" THEN "prevSlide"
                        ELSE IF key = "ArrowRight" THEN "nextSlide"
                        ELSE "other", 0, 0, 0)
    /\ CarouselFrame
    /\ UNCHANGED << touchStartX, touchStartY, classifiedDrag, touching, isSwiping,
                    swipeResetTimers, resizeTimers >>

\* The layout changes: the first slide's width and the list's gap take new
\* values.
LayoutChanges(w, g) ==
    /\ << w, g >> # << slideWidth, gap >>
    /\ slideWidth' = w
    /\ gap' = g
    /\ lastCall' = OtherCall
    /\ UNCHANGED << pageVars, widgetVars, menuVars, announcerVars, paginationEl, slideCount,
                    carState, totalSlides, currentSlide, translateX, activeSlides, dotCount,
                    activeDots, touchStartX, touchStartY, classifiedDrag, touching, isSwiping,
                    swipeResetTimers, resizeTimers >>

\* handleResize without its clearTimeout.
keepResizeTimeout(n) == n

\* clearTimeout(resizeTimeout): resizeTimeout is the timer set last, which is
\* cancelled when it is still pending (n: the resize timers pending).
clearResizeTimeout(n) == IF n > 0 THEN n - 1 ELSE 0

\* handleResize: a size-change signal restarts the debounce timer.
handleResize ==
    /\ carState = "ready"
    /\ clearResizeTimeout(resizeTimers) < MaxResizeTimers
    /\ resizeTimers' = clearResizeTimeout(resizeTimers) + 1
    /\ lastCall' = OtherCall
    /\ CarouselFrame
    /\ UNCHANGED << totalSlides, currentSlide, translateX, activeSlides, dotCount,
                    activeDots, announcerVars, touchStartX, touchStartY, classifiedDrag, touching,
                    isSwiping, swipeResetTimers >>

\* The debounce timer fires: goToSlide(currentSlide).
ResizeTimerFires ==
    /\ resizeTimers > 0
    /\ resizeTimers' = resizeTimers - 1
    /\ SetCarousel(goToSlide(CarouselRec, currentSlide, slideWidth, gap))
    /\ lastCall' = Call("resizeTimer", currentSlide, 0, 0)
    /\ CarouselFrame
    /\ UNCHANGED << touchStartX, touchStartY, classifiedDrag, touching, isSwiping, swipeResetTimers >>

\* ------------------------------------------------------------------------
\* Menu overlay
\* ------------------------------------------------------------------------

\* The k-th link of the overlay.
MenuLink(k) == "menuLink" \o ToString(k)

MenuLinks == { MenuLink(k) : k \in 1..linkCount }

\* The elements of the page that can hold focus while the overlay is closed
\* ("body": nothing has focus).
PageFocusables == {"body", "menuBtn", "rotatingText", "bannerH1", "pageLink"}

\* The elements that open the overlay through openMenuOverlay.
OverlayOpeners == {"rotatingText", "bannerH1"}

\* The overlay controller's closure state together with the DOM state it writes.
MenuRec ==
    [ overlayActive |-> overlayActive, btnActive |-> btnActive,
      ariaExpanded |-> ariaExpanded, bodyOverflow |-> bodyOverflow,
      previousActiveElement |-> previousActiveElement,
      activeElement |-> activeElement, trapAttached |-> trapAttached,
      liveText |-> liveText, pendingClears |-> pendingClears ]

\* The next state holds the record o.
SetMenu(o) ==
    /\ overlayActive' = o.overlayActive
    /\ btnActive' = o.btnActive
    /\ ariaExpanded' = o.ariaExpanded
    /\ bodyOverflow' = o.bodyOverflow
    /\ previousActiveElement' = o.previousActiveElement
    /\ activeElement' = o.activeElement
    /\ trapAttached' = o.trapAttached
    /\ liveText' = o.liveText
    /\ pendingClears' = o.pendingClears
    /\ o.pendingClears <= MaxPendingClears

openMenuFocusFirst(o) ==
    LET o1 == [o EXCEPT !.activeElement = IF linkCount > 0 THEN MenuLink(1) ELSE @]
    IN announceToScreenReader(
           [o1 EXCEPT !.overlayActive = TRUE,
                      !.btnActive = TRUE,
                      !.ariaExpanded = "true",
                      !.bodyOverflow = "hidden",
                      !.previousActiveElement = o1.activeElement,
                      !.trapAttached = TRUE],
           "Menu opened")

\* openMenu
openMenu(o) ==
    announceToScreenReader(
        [o EXCEPT !.overlayActive = TRUE,
                  !.btnActive = TRUE,
                  !.ariaExpanded = "true",
                  !.bodyOverflow = "hidden",
                  !.previousActiveElement = o.activeElement,
                  !.activeElement = IF linkCount > 0 THEN MenuLink(1) ELSE @,
                  !.trapAttached = TRUE],
        "Menu opened")

\* element.focus(): a focusable element takes the focus; the body is no
\* focusable area, so focusing it leaves the focus where it is or, when the
\* user agent drops the focus of the hidden link, leaves nothing focused
\* (bodyTakesFocus).
FocusOn(element, current, bodyTakesFocus) ==
    IF element = "body"
    THEN IF bodyTakesFocus THEN "body" ELSE current
    ELSE element

closeMenuKeepTrap(o, bodyTakesFocus) ==
    LET o1 == [o EXCEPT !.overlayActive = FALSE,
                        !.btnActive = FALSE,
                        !.ariaExpanded = "false",
                        !.bodyOverflow = "auto"]
        o2 == IF o1.previousActiveElement # "null"
              THEN [o1 EXCEPT !.activeElement =
                                  FocusOn(o1.previousActiveElement, @, bodyTakesFocus),
                              !.previousActiveElement = "null"]
              ELSE o1
    IN announceToScreenReader(o2, "Menu closed")

closeMenuKeepScrollLock(o, bodyTakesFocus) ==
    LET o1 == [o EXCEPT !.overlayActive = FALSE,
                        !.btnActive = FALSE,
                        !.ariaExpanded = "false",
                        !.trapAttached = FALSE]
        o2 == IF o1.previousActiveElement # "null"
              THEN [o1 EXCEPT !.activeElement =
                                  FocusOn(o1.previousActiveElement, @, bodyTakesFocus),
                              !.previousActiveElement = "null"]
              ELSE o1
    IN announceToScreenReader(o2, "Menu closed")

\* closeMenu
closeMenu(o, bodyTakesFocus) ==
    LET o1 == [o EXCEPT !.overlayActive = FALSE,
                        !.btnActive = FALSE,
                        !.ariaExpanded = "false",
                        !.bodyOverflow = "auto",
                        !.trapAttached = FALSE]
        o2 == IF o1.previousActiveElement # "null"
              THEN [o1 EXCEPT !.activeElement =
                                  FocusOn(o1.previousActiveElement, @, bodyTakesFocus),
                              !.previousActiveElement = "null"]
              ELSE o1
    IN announceToScreenReader(o2, "Menu closed")

menuBtnClickAlwaysOpen(o, bodyTakesFocus) == openMenu(o)

\* The trigger button's click listener.
menuBtnClick(o, bodyTakesFocus) ==
    IF o.overlayActive THEN closeMenu(o, bodyTakesFocus) ELSE openMenu(o)

\* openMenuOverlay: the trigger button is clicked programmatically (its
\* listener runs when initializeMenuOverlay attached one) and the opening is
\* announced.
openMenuOverlay(o, bodyTakesFocus) ==
    IF menuBtnEl
    THEN announceToScreenReader(
             IF menuState = "ready" THEN menuBtnClick(o, bodyTakesFocus) ELSE o,
             "Navigation menu opened")
    ELSE o

\* initializeMenuOverlay: the listeners are attached when the trigger button
\* and the overlay exist.
InitializeMenuOverlay ==
    /\ menuState = "uninit"
    /\ menuState' = IF ~menuBtnEl \/ ~menuOverlayEl THEN "skipped" ELSE "ready"
    /\ lastCall' = OtherCall
    /\ UNCHANGED << pageVars, widgetVars, announcerVars, carouselVars, menuBtnEl, menuOverlayEl,
                    linkCount, overlayActive, btnActive, ariaExpanded, bodyOverflow,
                    previousActiveElement, activeElement, trapAttached,
                    focusBeforeOpen, triggerRun >>

\* What every overlay event leaves alone.
MenuFrame ==
    UNCHANGED << pageVars, widgetVars, carouselVars, menuBtnEl, menuOverlayEl, linkCount,
                 menuState >>

\* The element that had focus when the overlay was last opened, after a step
\* from record o (with `focus` focused) to record o2.
TrackFocusBeforeOpen(o, o2, focus) ==
    focusBeforeOpen' = IF ~o.overlayActive /\ o2.overlayActive
                       THEN focus
                       ELSE focusBeforeOpen

\* No run of trigger activations is under way after a step that leaves the
\* overlay as in record o2: a new run can start once the overlay is Closed.
NoTriggerRun(o2) == IF o2.overlayActive THEN -1 ELSE 0

\* The run of consecutive trigger activations after one more activation that
\* leaves the overlay as in record o2; a run is followed up to MaxActivations.
TrackTriggerRun(o2) ==
    triggerRun' = IF triggerRun >= 0 /\ triggerRun < MaxActivations
                  THEN triggerRun + 1
                  ELSE NoTriggerRun(o2)

\* The user activates the trigger button (a pointer click may move the focus
\* to the button first).
MenuBtnActivated(focusMoves, bodyTakesFocus) ==
    /\ menuState = "ready"
    /\ LET o == [MenuRec EXCEPT !.activeElement = IF focusMoves THEN "menuBtn" ELSE @]
           o2 == menuBtnClick(o, bodyTakesFocus)
       IN /\ SetMenu(o2)
          /\ TrackFocusBeforeOpen(o, o2, o.activeElement)
          /\ TrackTriggerRun(o2)
          /\ lastCall' = Call(IF o.overlayActive THEN "triggerClose" ELSE "triggerOpen",
                              0, 0, 0)
    /\ MenuFrame

\* The user clicks the overlay's backdrop: closeMenu, whatever the state.
BackdropClick(bodyTakesFocus) ==
    /\ menuState = "ready"
    /\ SetMenu(closeMenu(MenuRec, bodyTakesFocus))
    /\ lastCall' = Call(IF overlayActive THEN "backdropClose" ELSE "backdropClosed",
                        0, 0, 0)
    /\ triggerRun' = NoTriggerRun(closeMenu(MenuRec, bodyTakesFocus))
    /\ UNCHANGED focusBeforeOpen
    /\ MenuFrame

\* A key-down reaches the document: Escape closes an open overlay.
EscapeKey(bodyTakesFocus) ==
    /\ menuState = "ready"
    /\ SetMenu(IF overlayActive THEN closeMenu(MenuRec, bodyTakesFocus) ELSE MenuRec)
    /\ lastCall' = Call(IF overlayActive THEN "escapeClose" ELSE "escapeIgnored",
                        0, 0, 0)
    /\ triggerRun' = IF overlayActive THEN 0 ELSE triggerRun
    /\ UNCHANGED focusBeforeOpen
    /\ MenuFrame

\* The user clicks or keyboard-activates the rotating heading or the banner
\* heading (a pointer click may move the focus to it first): openMenuOverlay.
HeadingActivated(source, focusMoves, bodyTakesFocus) ==
    /\ menuState # "uninit"
    /\ LET o == [MenuRec EXCEPT !.activeElement = IF focusMoves THEN source ELSE @]
           o2 == openMenuOverlay(o, bodyTakesFocus)
       IN /\ SetMenu(o2)
          /\ TrackFocusBeforeOpen(o, o2, o.activeElement)
          /\ triggerRun' = NoTriggerRun(o2)
          /\ lastCall' = Call(IF o.overlayActive THEN "headingWhileOpen"
                              ELSE "headingWhileClosed", 0, 0, 0)
    /\ MenuFrame

\* The user moves the focus: within the overlay and its trigger while it is
\* open, within the page while it is closed.
FocusMoves(element) ==
    /\ menuState # "uninit"
    /\ element \in IF overlayActive THEN MenuLinks \cup {"menuBtn"} ELSE PageFocusables
    /\ element # activeElement
    /\ activeElement' = element
    /\ lastCall' = OtherCall
    /\ UNCHANGED << announcerVars, overlayActive, btnActive, ariaExpanded,
                    bodyOverflow, previousActiveElement, trapAttached,
                    focusBeforeOpen, triggerRun >>
    /\ MenuFrame

\* The keys a key-down inside the overlay can carry.
OverlayKeys == {"Tab", "ArrowDown"}

\* The position of an overlay link among menuLinks (0 for any other element).
LinkIndex(element) ==
    IF element \in MenuLinks
    THEN CHOOSE k \in 1..linkCount : MenuLink(k) = element
    ELSE 0

trapFocusBackwardFromLast(o, key, shiftKey) ==
    IF linkCount = 0 \/ ~o.overlayActive \/ key # "Tab"
    THEN [activeElement |-> o.activeElement, prevented |-> FALSE]
    ELSE IF shiftKey
         THEN IF o.activeElement = MenuLink(linkCount)
              THEN [activeElement |-> MenuLink(1), prevented |-> TRUE]
              ELSE [activeElement |-> o.activeElement, prevented |-> FALSE]
         ELSE IF o.activeElement = MenuLink(1)
              THEN [activeElement |-> MenuLink(linkCount), prevented |-> TRUE]
              ELSE [activeElement |-> o.activeElement, prevented |-> FALSE]

\* trapFocus, the handler createFocusTrap returns for the overlay and its
\* links: the focused element after it ran, and whether it called
\* preventDefault. Without links createFocusTrap returns a handler that does
\* nothing.
trapFocus(o, key, shiftKey) ==
    IF linkCount = 0
    THEN [activeElement |-> o.activeElement, prevented |-> FALSE]
    ELSE IF ~o.overlayActive
    THEN [activeElement |-> o.activeElement, prevented |-> FALSE]
    ELSE IF key = "Tab"
    THEN IF shiftKey
         THEN IF o.activeElement = MenuLink(1)
              THEN [activeElement |-> MenuLink(linkCount), prevented |-> TRUE]
              ELSE [activeElement |-> o.activeElement, prevented |-> FALSE]
         ELSE IF o.activeElement = MenuLink(linkCount)
              THEN [activeElement |-> MenuLink(1), prevented |-> TRUE]
              ELSE [activeElement |-> o.activeElement, prevented |-> FALSE]
    ELSE [activeElement |-> o.activeElement, prevented |-> FALSE]

\* The user agent's default action for a key-down on overlay link `element`
\* that no listener prevented: Tab moves the focus to the next link
\* (Shift+Tab to the previous one) and, past the overlay's ends, to the
\* element `outside` of the page; any other key leaves the focus alone.
DefaultAction(element, key, shiftKey, outside) ==
    IF key # "Tab" THEN element
    ELSE LET k == LinkIndex(element) + (IF shiftKey THEN -1 ELSE 1)
         IN IF k >= 1 /\ k <= linkCount THEN MenuLink(k) ELSE outside

\* A key-down on the focused overlay link reaches the overlay's trapFocus
\* listener, then the user agent performs the key's default action unless the
\* listener prevented it.
OverlayKeyDown(key, shiftKey, outside) ==
    /\ menuState = "ready"
    /\ trapAttached
    /\ activeElement \in MenuLinks
    /\ LET t == trapFocus(MenuRec, key, shiftKey)
       IN /\ activeElement' = IF t.prevented THEN t.activeElement
                               ELSE DefaultAction(activeElement, key, shiftKey, outside)
          /\ lastCall' = Call(IF key # "Tab" THEN "otherKey"
                              ELSE IF shiftKey THEN "shiftTab" ELSE "tab",
                              IF t.prevented THEN 1 ELSE 0, 0, 0)
    /\ UNCHANGED << announcerVars, overlayActive, btnActive, ariaExpanded,
                    bodyOverflow, previousActiveElement, trapAttached,
                    focusBeforeOpen, triggerRun >>
    /\ MenuFrame

\* ------------------------------------------------------------------------
\* Rotating heading
\* ------------------------------------------------------------------------

\* The rotating heading's closure state together with the DOM state it writes.
RotationRec ==
    [ currentIndex |-> currentIndex, rotatingWord |-> rotatingWord,
      fadeOut |-> fadeOut, fadeIn |-> fadeIn, isPaused |-> isPaused,
      rotationTimer |-> rotationTimer, initialTimeout |-> initialTimeout,
      firstTickTimers |-> firstTickTimers, intervalTimers |-> intervalTimers,
      swapPending |-> swapPending, fadeInPending |-> fadeInPending,
      swapInterrupted |-> swapInterrupted ]

\* The next state holds the record r.
SetRotation(r) ==
    /\ currentIndex' = r.currentIndex
    /\ rotatingWord' = r.rotatingWord
    /\ fadeOut' = r.fadeOut
    /\ fadeIn' = r.fadeIn
    /\ isPaused' = r.isPaused
    /\ rotationTimer' = r.rotationTimer
    /\ initialTimeout' = r.initialTimeout
    /\ firstTickTimers' = r.firstTickTimers
    /\ intervalTimers' = r.intervalTimers
    /\ swapPending' = r.swapPending
    /\ fadeInPending' = r.fadeInPending
    /\ swapInterrupted' = r.swapInterrupted
    /\ r.firstTickTimers <= MaxRotationTimers
    /\ r.intervalTimers <= MaxRotationTimers

clearRotationTimersNone(r) == r

\* The timer clearing startRotation and pauseRotation both begin with: the
\* timers the two handles name are cancelled and the handles reset.
clearRotationTimers(r) ==
    LET r1 == IF r.rotationTimer
              THEN [r EXCEPT !.intervalTimers = @ - 1, !.rotationTimer = FALSE]
              ELSE r
    IN IF r1.initialTimeout
       THEN [r1 EXCEPT !.firstTickTimers = @ - 1, !.initialTimeout = FALSE]
       ELSE r1

\* updateRotatingText up to its setTimeout: a tick starts the fade-out and
\* schedules the word swap, unless rotation is paused.
updateRotatingText(r) ==
    IF r.isPaused THEN r
    ELSE [r EXCEPT !.fadeOut = TRUE, !.swapPending = TRUE, !.swapInterrupted = FALSE]

swapWordStale(r) ==
    [r EXCEPT !.rotatingWord = Industries[r.currentIndex + 1],
              !.currentIndex = (r.currentIndex + 1) % Len(Industries),
              !.fadeOut = FALSE,
              !.fadeIn = TRUE,
              !.swapPending = FALSE,
              !.swapInterrupted = FALSE,
              !.fadeInPending = TRUE]

\* The word-swap callback of updateRotatingText: the index advances modulo the
\* list length, the word is replaced, the fade-in starts and its removal is
\* scheduled. (Industries is 1-based here, industries[currentIndex] 0-based.)
swapWord(r) ==
    LET next == (r.currentIndex + 1) % Len(Industries) IN
    [r EXCEPT !.currentIndex = next,
              !.rotatingWord = Industries[next + 1],
              !.fadeOut = FALSE,
              !.fadeIn = TRUE,
              !.swapPending = FALSE,
              !.swapInterrupted = FALSE,
              !.fadeInPending = TRUE]

\* startRotation, up to scheduling the first-tick timer (the delay is
\* initialDelay for both of its callers).
startRotation(r) ==
    LET r1 == clearRotationTimers(r) IN
    IF r1.isPaused THEN r1
    ELSE [r1 EXCEPT !.initialTimeout = TRUE, !.firstTickTimers = @ + 1]

\* pauseRotation setting the flag only.
pauseRotationFlagOnly(r) ==
    [r EXCEPT !.isPaused = TRUE, !.swapInterrupted = r.swapPending]

\* pauseRotation
pauseRotation(r) ==
    LET r1 == clearRotationTimers([r EXCEPT !.isPaused = TRUE]) IN
    [r1 EXCEPT !.swapInterrupted = r.swapPending]

\* resumeRotation
resumeRotation(r) ==
    IF r.isPaused
    THEN startRotation([r EXCEPT !.isPaused = FALSE])
    ELSE r

\* The first-tick callback startRotation schedules.
firstTick(r) ==
    LET r1 == [r EXCEPT !.initialTimeout = FALSE] IN
    IF ~r1.isPaused
    THEN [updateRotatingText(r1) EXCEPT !.rotationTimer = TRUE,
                                        !.intervalTimers = @ + 1]
    ELSE r1

\* The focus and blur listeners of the heading, run when a focus() call moves
\* the focus from `before` to `after`: blur resumes, focus pauses.
HeadingFocusEvents(r, before, after) ==
    IF before = "rotatingText" /\ after # "rotatingText" THEN resumeRotation(r)
    ELSE IF before # "rotatingText" /\ after = "rotatingText" THEN pauseRotation(r)
    ELSE r

\* What every event of the rotating heading leaves alone.
RotationFrame ==
    UNCHANGED << pageVars, carouselVars, accordionVars, loaderVars, revealVars,
                 rotatingWordEl, rotState,
                 menuBtnEl, menuOverlayEl, linkCount, menuState >>

\* What an event of the rotating heading that does not reach the overlay
\* leaves alone besides.
OverlayUntouched ==
    UNCHANGED << announcerVars, overlayActive, btnActive, ariaExpanded,
                 bodyOverflow, previousActiveElement, trapAttached,
                 focusBeforeOpen, triggerRun >>

\* initializeRotatingIndustry: nothing happens without the heading's
\* elements; otherwise the listeners are attached and rotation is started.
InitializeRotatingIndustry ==
    /\ rotState = "uninit"
    /\ IF ~hasRotatingText \/ ~rotatingWordEl
       THEN /\ rotState' = "skipped"
            /\ UNCHANGED << currentIndex, rotatingWord, fadeOut, fadeIn, isPaused,
                            rotationTimer, initialTimeout, firstTickTimers,
                            intervalTimers, swapPending, fadeInPending,
                            swapInterrupted >>
       ELSE /\ rotState' = "ready"
            /\ SetRotation(startRotation([RotationRec EXCEPT !.isPaused = FALSE]))
    /\ lastCall' = OtherCall
    /\ UNCHANGED << pageVars, carouselVars, menuVars, announcerVars, accordionVars,
                    loaderVars, revealVars,
                    rotatingWordEl, resumeTimers, hovering >>

\* The pointer enters the heading: pauseRotation.
HeadingMouseEnter ==
    /\ rotState = "ready"
    /\ ~hovering
    /\ hovering' = TRUE
    /\ SetRotation(pauseRotation(RotationRec))
    /\ lastCall' = OtherCall
    /\ UNCHANGED << resumeTimers, activeElement >>
    /\ OverlayUntouched
    /\ RotationFrame

\* The pointer leaves the heading: resumeRotation.
HeadingMouseLeave ==
    /\ rotState = "ready"
    /\ hovering
    /\ hovering' = FALSE
    /\ SetRotation(resumeRotation(RotationRec))
    /\ lastCall' = OtherCall
    /\ UNCHANGED << resumeTimers, activeElement >>
    /\ OverlayUntouched
    /\ RotationFrame

\* The user moves the focus to the heading: pauseRotation.
HeadingFocus ==
    /\ rotState = "ready"
    /\ ~overlayActive
    /\ activeElement # "rotatingText"
    /\ activeElement' = "rotatingText"
    /\ SetRotation(pauseRotation(RotationRec))
    /\ lastCall' = OtherCall
    /\ UNCHANGED << resumeTimers, hovering >>
    /\ OverlayUntouched
    /\ RotationFrame

\* The user moves the focus off the heading: resumeRotation.
HeadingBlur ==
    /\ rotState = "ready"
    /\ activeElement = "rotatingText"
    /\ activeElement' = "pageLink"
    /\ SetRotation(resumeRotation(RotationRec))
    /\ lastCall' = OtherCall
    /\ UNCHANGED << resumeTimers, hovering >>
    /\ OverlayUntouched
    /\ RotationFrame

\* handleMenuInteraction, the heading's click listener and its Enter/Space
\* key-down listener (a pointer click may move the focus to the heading
\* first): pauseRotation, openMenuOverlay, and an automatic resume is
\* scheduled. The focus() calls of openMenu and closeMenu dispatch the
\* heading's blur and focus events before they return.
handleMenuInteraction(focusMoves, bodyTakesFocus) ==
    /\ rotState = "ready"
    /\ menuState # "uninit"
    /\ resumeTimers < MaxResumeTimers
    /\ LET focus == IF focusMoves THEN "rotatingText" ELSE activeElement
           r0 == HeadingFocusEvents(RotationRec, activeElement, focus)
           r1 == pauseRotation(r0)
           o == [MenuRec EXCEPT !.activeElement = focus]
           o2 == openMenuOverlay(o, bodyTakesFocus)
           r2 == HeadingFocusEvents(r1, focus, o2.activeElement)
       IN /\ SetRotation(r2)
          /\ SetMenu(o2)
          /\ TrackFocusBeforeOpen(o, o2, focus)
          /\ triggerRun' = NoTriggerRun(o2)
    /\ resumeTimers' = resumeTimers + 1
    /\ lastCall' = OtherCall
    /\ UNCHANGED hovering
    /\ RotationFrame

\* An automatic-resume timer fires: resumeRotation.
ResumeTimerFires ==
    /\ resumeTimers > 0
    /\ resumeTimers' = resumeTimers - 1
    /\ SetRotation(resumeRotation(RotationRec))
    /\ lastCall' = OtherCall
    /\ UNCHANGED << hovering, activeElement >>
    /\ OverlayUntouched
    /\ RotationFrame

\* A timer of the rotating heading that was scheduled later, with a longer
\* delay, fires after the fade timers: fadeDuration (300) is shorter than
\* initialDelay (2000) and rotationInterval (3500).
FadeTimersDone == ~swapPending /\ ~fadeInPending

\* A first-tick timer fires.
FirstTickFires ==
    /\ firstTickTimers > 0
    /\ FadeTimersDone
    /\ SetRotation(firstTick([RotationRec EXCEPT !.firstTickTimers = @ - 1]))
    /\ lastCall' = OtherCall
    /\ UNCHANGED << resumeTimers, hovering, activeElement >>
    /\ OverlayUntouched
    /\ RotationFrame

\* A repeating timer fires: updateRotatingText.
RotationIntervalFires ==
    /\ intervalTimers > 0
    /\ FadeTimersDone
    /\ SetRotation(updateRotatingText(RotationRec))
    /\ lastCall' = OtherCall
    /\ UNCHANGED << resumeTimers, hovering, activeElement >>
    /\ OverlayUntouched
    /\ RotationFrame

\* The word-swap timer of a tick fires.
SwapTimerFires ==
    /\ swapPending
    /\ SetRotation(swapWord(RotationRec))
    /\ lastCall' = OtherCall
    /\ UNCHANGED << resumeTimers, hovering, activeElement >>
    /\ OverlayUntouched
    /\ RotationFrame

\* The fade-in removal timer of a swap fires.
FadeInTimerFires ==
    /\ fadeInPending
    /\ SetRotation([RotationRec EXCEPT !.fadeIn = FALSE, !.fadeInPending = FALSE])
    /\ lastCall' = OtherCall
    /\ UNCHANGED << resumeTimers, hovering, activeElement >>
    /\ OverlayUntouched
    /\ RotationFrame

\* ------------------------------------------------------------------------
\* Accordion
\* ------------------------------------------------------------------------

\* The accordion items, in document order.
AccordionItems == 1..accordionCount

\* The DOM state the accordion's click listener reads and writes, together
\* with the live region.
AccordionRec ==
    [ accExpanded |-> accExpanded, accShown |-> accShown,
      liveText |-> liveText, pendingClears |-> pendingClears ]

\* The text of an item's .accordion-question element.
QuestionText(i) == "Question " \o ToString(i)

accordionClickToggleOnly(a, i) ==
    IF i \notin accPanels THEN a
    ELSE IF i \in a.accExpanded
         THEN announceToScreenReader(
                  [a EXCEPT !.accExpanded = @ \ {i}, !.accShown = @ \ {i}],
                  "Accordion closed")
         ELSE announceToScreenReader(
                  [a EXCEPT !.accExpanded = @ \cup {i}, !.accShown = @ \cup {i}],
                  QuestionText(i) \o " expanded")

\* The click listener writing aria-expanded only.
accordionClickFlagOnly(a, i) ==
    IF i \notin accPanels THEN a
    ELSE LET others == { j \in AccordionItems \ {i} :
                            j \in a.accExpanded /\ j \in accPanels }
             a1 == [a EXCEPT !.accExpanded = @ \ others]
         IN IF i \in a.accExpanded
            THEN announceToScreenReader([a1 EXCEPT !.accExpanded = @ \ {i}],
                                        "Accordion closed")
            ELSE announceToScreenReader([a1 EXCEPT !.accExpanded = @ \cup {i}],
                                        QuestionText(i) \o " expanded")

\* The click listener of item i's button: nothing happens when the item's
\* panel is missing; otherwise every other expanded item whose panel exists
\* is collapsed, then the item is toggled and the result announced.
accordionClick(a, i) ==
    IF i \notin accPanels THEN a
    ELSE LET others == { j \in AccordionItems \ {i} :
                            j \in a.accExpanded /\ j \in accPanels }
             a1 == [a EXCEPT !.accExpanded = @ \ others, !.accShown = @ \ others]
         IN IF i \in a.accExpanded
            THEN announceToScreenReader(
                     [a1 EXCEPT !.accExpanded = @ \ {i}, !.accShown = @ \ {i}],
                     "Accordion closed")
            ELSE announceToScreenReader(
                     [a1 EXCEPT !.accExpanded = @ \cup {i}, !.accShown = @ \cup {i}],
                     QuestionText(i) \o " expanded")

\* What every accordion event leaves alone.
AccordionFrame ==
    UNCHANGED << pageVars, carouselVars, menuVars, rotationVars, loaderVars,
                 revealVars, accordionCount,
                 accPanels >>

\* initializeAccordions: the listeners are attached when the page has
\* accordion buttons.
InitializeAccordions ==
    /\ accState = "uninit"
    /\ accState' = IF accordionCount = 0 THEN "skipped" ELSE "ready"
    /\ lastCall' = OtherCall
    /\ UNCHANGED << accExpanded, accShown, announcerVars >>
    /\ AccordionFrame

\* The user activates item i's button, by a click or by Enter/Space (whose
\* key-down listener clicks the button).
AccordionActivated(i) ==
    /\ accState = "ready"
    /\ i \in AccordionItems
    /\ LET a == accordionClick(AccordionRec, i)
       IN /\ accExpanded' = a.accExpanded
          /\ accShown' = a.accShown
          /\ liveText' = a.liveText
          /\ pendingClears' = a.pendingClears
          /\ a.pendingClears <= MaxPendingClears
    /\ lastCall' = Call("accordionClick", i, 0, 0)
    /\ UNCHANGED accState
    /\ AccordionFrame

\* ------------------------------------------------------------------------
\* Fade-in of the content elements
\* ------------------------------------------------------------------------

\* The content elements, in document order.
ContentElements == 1..elementsToAnimate

\* The state of the content elements and of the observer.
RevealRec ==
    [ fadeInClass |-> fadeInClass, observing |-> observing, classAdds |-> classAdds ]

\* element.classList.add(FADE_IN_CLASS) for every element of the set.
addFadeInClass(r, elements) ==
    [r EXCEPT !.fadeInClass = @ \cup elements,
              !.classAdds = [e \in DOMAIN @ |-> IF e \in elements THEN @[e] + 1 ELSE @[e]]]

\* The observer's callback without its unobserve.
observerCallbackKeepObserving(r, intersecting, matching) ==
    addFadeInClass(r, intersecting \cap matching)

\* The observer's callback for entries of which those of `intersecting` have
\* isIntersecting set; `matching`: the targets that match the selector when
\* the callback runs. A target that intersects and matches gets the class and
\* is unobserved.
observerCallback(r, intersecting, matching) ==
    [addFadeInClass(r, intersecting \cap matching)
        EXCEPT !.observing = @ \ (intersecting \cap matching)]

\* The frame callback of the fallback: every element gets the class.
fallbackFrame(r) == addFadeInClass(r, DOMAIN r.classAdds)

\* The frame callback with an observer: an element in the viewport gets the
\* class at once, any other element is observed.
observeFrame(r, visible) ==
    [addFadeInClass(r, visible)
        EXCEPT !.observing = @ \cup (DOMAIN r.classAdds \ visible)]

SetReveal(r) ==
    /\ fadeInClass' = r.fadeInClass
    /\ observing' = r.observing
    /\ classAdds' = r.classAdds
    /\ \A e \in DOMAIN r.classAdds : r.classAdds[e] <= MaxClassAdds

\* What every step of the fade-in leaves alone.
RevealFrame ==
    UNCHANGED << pageVars, announcerVars, carouselVars, menuVars, rotationVars,
                 accordionVars, loaderVars, elementsToAnimate, observerSupported >>

\* The page is scrolled or laid out anew: other elements are in the viewport.
ViewportChanges(visible) ==
    /\ visible \subseteq ContentElements
    /\ visible # inViewport
    /\ inViewport' = visible
    /\ lastCall' = OtherCall
    /\ UNCHANGED << fadeInState, fadeInClass, observing, classAdds >>
    /\ RevealFrame

\* initializeFadeInAnimations: a frame is requested, by the fallback always,
\* with an observer when the selector matches an element.
InitializeFadeInAnimations ==
    /\ fadeInState = "uninit"
    /\ fadeInState' = IF ~observerSupported \/ elementsToAnimate > 0
                      THEN "frame"
                      ELSE "ready"
    /\ lastCall' = OtherCall
    /\ UNCHANGED << inViewport, fadeInClass, observing, classAdds >>
    /\ RevealFrame

\* The requested frame runs.
FadeInFrame ==
    /\ fadeInState = "frame"
    /\ fadeInState' = "ready"
    /\ SetReveal(IF observerSupported
                 THEN observeFrame(RevealRec, inViewport)
                 ELSE fallbackFrame(RevealRec))
    /\ UNCHANGED inViewport
    /\ lastCall' = OtherCall
    /\ RevealFrame

\* The observer delivers entries for some of its targets. An entry holds the
\* intersection found when it was queued, with the observer's threshold and
\* root margin: `intersecting` is not tied to inViewport.
ObserverCallback(intersecting, matching) ==
    /\ fadeInState = "ready"
    /\ intersecting \subseteq observing
    /\ matching \subseteq intersecting
    /\ SetReveal(observerCallback(RevealRec, intersecting, matching))
    /\ lastCall' = Call("observerCallback", Cardinality(intersecting \cap matching), 0, 0)
    /\ UNCHANGED << inViewport, fadeInState >>
    /\ RevealFrame

\* ------------------------------------------------------------------------
\* Initial states
\* ------------------------------------------------------------------------

\* The documents a page load is followed in: every target present, one
\* placeholder missing, the card container missing, no target at all.
Documents ==
    { Targets, Targets \ {"cta-placeholder"}, ComponentIds, {} }

\* The page at the start of the DOMContentLoaded handler.
PageStart ==
    /\ configDefined \in BOOLEAN
    /\ elementPresent \in Documents
    /\ hasCarousel \in BOOLEAN
    /\ hasRotatingText \in BOOLEAN
    /\ innerHTML = [t \in Targets |->
                        IF t \in elementPresent THEN << StaticMarkup(t) >> ELSE << >>]
    /\ promise = [l \in LoadIds |-> "notCalled"]
    /\ fetchIssued = {}
    /\ fetchOutcome = [l \in LoadIds |-> "none"]
    /\ icState = "notCalled"
    /\ pc = "start"
    /\ loaded = FALSE
    /\ initialized = {}
    /\ faulted = {}
    /\ rafPending = FALSE

\* The page after the handler has ended with every load successful, the frame
\* callback of the carousel still pending when the page has a slide track.
PageAfterHandler ==
    /\ configDefined = TRUE
    /\ elementPresent \in { Targets, ComponentIds }
    /\ hasCarousel \in BOOLEAN
    /\ hasRotatingText = TRUE
    /\ innerHTML = [t \in Targets |->
                        IF t \in ComponentIds THEN << Markup(Components[t]) >>
                        ELSE IF t \in elementPresent
                             THEN << StaticMarkup(t) >>
                                  \o [k \in 1..Len(ProjectCards) |-> Markup(ProjectCards[k])]
                             ELSE << >>]
    /\ promise = [l \in LoadIds |->
                        IF l \in ComponentIds \/ ProjectCardsList \in elementPresent
                        THEN "true" ELSE "notCalled"]
    /\ fetchIssued = { l \in LoadIds : promise[l] = "true" }
    /\ fetchOutcome = [l \in LoadIds |-> IF promise[l] = "true" THEN "ok" ELSE "none"]
    /\ icState = "resolved"
    /\ pc = "done"
    /\ loaded = TRUE
    /\ initialized = CalledControllers
    /\ faulted = {}
    /\ rafPending = hasCarousel

\* The page after the handler has ended with every load successful, in a
\* document with a slide track: the carousel's frame callback is pending.
PageSettled == PageAfterHandler /\ hasCarousel

\* The live region before any announcement.
AnnouncerStart ==
    /\ liveText = ""
    /\ pendingClears = 0

\* The carousel before initializeCarousel, in a document with `slides` slides
\* whose static markup marks the first slide active or none.
CarouselStart(slides) ==
    /\ slideCount \in slides
    /\ paginationEl \in BOOLEAN
    /\ slideWidth \in SlideWidths
    /\ gap \in ComputedGaps
    /\ carState = "uninit"
    /\ totalSlides = 0
    /\ currentSlide = 0
    /\ translateX = 0
    /\ activeSlides \in { {}, {0} \cap (0..(slideCount - 1)) }
    /\ dotCount = 0
    /\ activeDots = {}
    /\ touchStartX = 0
    /\ touchStartY = 0
    /\ touching = FALSE
    /\ isSwiping = FALSE
    /\ classifiedDrag = FALSE
    /\ swipeResetTimers = 0
    /\ resizeTimers = 0

\* ------------------------------------------------------------------------
\* Specifications
\* ------------------------------------------------------------------------

\* The overlay before initializeMenuOverlay, in a document whose overlay has
\* `links` links.
MenuStart(links) ==
    /\ menuBtnEl \in BOOLEAN
    /\ menuOverlayEl \in BOOLEAN
    /\ linkCount \in links
    /\ menuState = "uninit"
    /\ overlayActive = FALSE
    /\ btnActive = FALSE
    /\ ariaExpanded = "false"
    /\ bodyOverflow = "unset"
    /\ previousActiveElement = "null"
    /\ activeElement = "body"
    /\ trapAttached = FALSE
    /\ focusBeforeOpen = "none"
    /\ triggerRun = 0

\* The overlay after initializeMenuOverlay, in a document whose overlay has
\* `links` links.
MenuInitialized(links) ==
    /\ menuBtnEl \in BOOLEAN
    /\ menuOverlayEl = menuBtnEl
    /\ linkCount \in links
    /\ menuState = IF menuBtnEl /\ menuOverlayEl THEN "ready" ELSE "skipped"
    /\ overlayActive = FALSE
    /\ btnActive = FALSE
    /\ ariaExpanded = "false"
    /\ bodyOverflow = "unset"
    /\ previousActiveElement = "null"
    /\ activeElement = "body"
    /\ trapAttached = FALSE
    /\ focusBeforeOpen = "none"
    /\ triggerRun = 0

\* The rotating heading before initializeRotatingIndustry.
RotationStart ==
    /\ rotatingWordEl \in BOOLEAN
    /\ rotState = "uninit"
    /\ currentIndex = 0
    /\ rotatingWord = "static"
    /\ fadeOut = FALSE
    /\ fadeIn = FALSE
    /\ isPaused = FALSE
    /\ rotationTimer = FALSE
    /\ initialTimeout = FALSE
    /\ firstTickTimers = 0
    /\ intervalTimers = 0
    /\ swapPending = FALSE
    /\ fadeInPending = FALSE
    /\ resumeTimers = 0
    /\ hovering = FALSE
    /\ swapInterrupted = FALSE

\* A page without the rotating heading.
NoRotation == RotationStart /\ rotatingWordEl = FALSE

\* The accordion before initializeAccordions, in a document with `items`
\* items: the markup expands at most one item, and shows the panel of an
\* expanded item.
AccordionStart(items) ==
    /\ accordionCount \in items
    /\ accPanels \in SUBSET (1..accordionCount)
    /\ accState = "uninit"
    /\ accExpanded \in { e \in SUBSET (1..accordionCount) : Cardinality(e) <= 1 }
    /\ accShown = accExpanded \cap accPanels

\* A page without accordion items.
NoAccordion == AccordionStart({0})

\* The content elements before initializeFadeInAnimations.
RevealStart(counts) ==
    /\ elementsToAnimate \in counts
    /\ observerSupported \in BOOLEAN
    /\ inViewport \in SUBSET (1..elementsToAnimate)
    /\ fadeInState = "uninit"
    /\ fadeInClass = {}
    /\ observing = {}
    /\ classAdds = [e \in 1..elementsToAnimate |-> 0]

\* No direct call of the loader was made, on a page without content elements.
NoCalls ==
    /\ calls = << >>
    /\ RevealStart({0})
    /\ observerSupported

\* A page load in a document without carousel slides.
InitPage ==
    /\ PageStart
    /\ AnnouncerStart
    /\ CarouselStart({0})
    /\ paginationEl = FALSE
    /\ slideWidth = 0
    /\ gap = "normal"
    /\ MenuStart({0})
    /\ menuBtnEl = FALSE
    /\ menuOverlayEl = FALSE
    /\ NoRotation
    /\ NoAccordion
    /\ NoCalls
    /\ lastCall = NoCall

NextPage ==
    \/ DOMContentLoaded
    \/ \E l \in LoadIds, outcome \in FetchOutcomes : FetchSettles(l, outcome)
    \/ ComponentsSettled
    \/ AnimationFrame

SpecPage == InitPage /\ [][NextPage]_vars

\* A page load in a document with the carousel and the rotating heading.
InitPageFair == InitPage /\ hasCarousel /\ hasRotatingText

\* The event loop runs the continuation of a settled await.
SpecPageFair == InitPageFair /\ [][NextPage]_vars /\ WF_vars(ComponentsSettled)

\* The carousel of a loaded page, from the frame that initializes it.
InitCarousel ==
    /\ PageSettled
    /\ elementPresent = Targets
    /\ AnnouncerStart
    /\ CarouselStart(0..MaxSlides)
    /\ MenuStart({0})
    /\ menuBtnEl = FALSE
    /\ menuOverlayEl = FALSE
    /\ NoRotation
    /\ NoAccordion
    /\ NoCalls
    /\ lastCall = NoCall

NextCarousel ==
    \/ AnimationFrame
    \/ \E i \in 0..(MaxSlides - 1) : DotClick(i)
    \/ \E i \in 0..(MaxSlides - 1) : SlideClick(i)
    \/ \E t \in TouchStarts : handleTouchStart(t[1], t[2])
    \/ \E t \in TouchMoves : handleTouchMove(t[1], t[2])
    \/ \E t \in TouchEnds : handleTouchEnd(t[1], t[2])
    \/ SwipeResetFires
    \/ \E key \in CarouselKeys : CarouselKeyDown(key)
    \/ \E w \in SlideWidths, g \in ComputedGaps : LayoutChanges(w, g)
    \/ handleResize
    \/ ResizeTimerFires
    \/ ClearTimerFires

SpecCarousel == InitCarousel /\ [][NextCarousel]_vars

\* The carousel under size-change signals, layout changes and activations of
\* the pagination controls. Its timers fire: a pending resize timer fires
\* whenever the live region can take its announcement, and the clear timers
\* fire.
NextResize ==
    \/ AnimationFrame
    \/ \E i \in 0..(MaxSlides - 1) : DotClick(i)
    \/ \E w \in SlideWidths, g \in ComputedGaps : LayoutChanges(w, g)
    \/ handleResize
    \/ ResizeTimerFires
    \/ ClearTimerFires

SpecResizeFair ==
    /\ InitCarousel
    /\ [][NextResize]_vars
    /\ SF_vars(ResizeTimerFires)
    /\ WF_vars(ClearTimerFires)

\* The carousel's initialization in any document: with or without the slide
\* track, the card container, the pagination container, the slides.
InitCarouselSetup ==
    /\ PageAfterHandler
    /\ AnnouncerStart
    /\ CarouselStart(0..MaxSlides)
    /\ ProjectCardsList \notin elementPresent => slideCount = 0
    /\ MenuStart({0})
    /\ menuBtnEl = FALSE
    /\ menuOverlayEl = FALSE
    /\ NoRotation
    /\ NoAccordion
    /\ NoCalls
    /\ lastCall = NoCall

NextCarouselSetup ==
    \/ AnimationFrame
    \/ InitializeCarouselCalled
    \/ \E i \in 0..(MaxSlides - 1) : DotClick(i)
    \/ \E index \in (-1)..MaxSlides : GoToSlideCalled(index)
    \/ \E key \in CarouselKeys : CarouselKeyDown(key)
    \/ ClearTimerFires

SpecCarouselSetup == InitCarouselSetup /\ [][NextCarouselSetup]_vars

\* The menu overlay of a loaded page, from its initialization.
InitMenu ==
    /\ PageSettled
    /\ elementPresent = Targets
    /\ AnnouncerStart
    /\ CarouselStart({0})
    /\ paginationEl = FALSE
    /\ slideWidth = 0
    /\ gap = "normal"
    /\ MenuStart(0..MaxLinks)
    /\ NoRotation
    /\ NoAccordion
    /\ NoCalls
    /\ lastCall = NoCall

NextMenu ==
    \/ InitializeMenuOverlay
    \/ \E f, b \in BOOLEAN : MenuBtnActivated(f, b)
    \/ \E b \in BOOLEAN : BackdropClick(b)
    \/ \E b \in BOOLEAN : EscapeKey(b)
    \/ \E source \in OverlayOpeners, f, b \in BOOLEAN : HeadingActivated(source, f, b)
    \/ \E element \in PageFocusables \cup { MenuLink(k) : k \in 1..MaxLinks } :
            FocusMoves(element)
    \/ \E key \in OverlayKeys, shiftKey \in BOOLEAN, outside \in {"menuBtn", "pageLink"} :
            OverlayKeyDown(key, shiftKey, outside)
    \/ ClearTimerFires

SpecMenu == InitMenu /\ [][NextMenu]_vars

\* The rotating heading of a loaded page, from its initialization (the
\* overlay controller is initialized before it).
InitRotation ==
    /\ PageSettled
    /\ elementPresent = Targets
    /\ AnnouncerStart
    /\ CarouselStart({0})
    /\ paginationEl = FALSE
    /\ slideWidth = 0
    /\ gap = "normal"
    /\ activeSlides = {}
    /\ MenuInitialized({1})
    /\ RotationStart
    /\ NoAccordion
    /\ NoCalls
    /\ lastCall = NoCall

NextRotation ==
    \/ InitializeRotatingIndustry
    \/ HeadingMouseEnter
    \/ HeadingMouseLeave
    \/ HeadingFocus
    \/ HeadingBlur
    \/ \E f, b \in BOOLEAN : handleMenuInteraction(f, b)
    \/ ResumeTimerFires
    \/ FirstTickFires
    \/ RotationIntervalFires
    \/ SwapTimerFires
    \/ FadeInTimerFires
    \/ ClearTimerFires

SpecRotation == InitRotation /\ [][NextRotation]_vars

\* The load functions called directly, in a document whose targets hold
\* their static markup: one with a placeholder missing, one with the card
\* container missing.
InitLoader ==
    /\ PageStart
    /\ configDefined = TRUE
    /\ elementPresent \in { Targets \ {"cta-placeholder"}, ComponentIds }
    /\ hasCarousel = FALSE
    /\ hasRotatingText = FALSE
    /\ AnnouncerStart
    /\ CarouselStart({0})
    /\ paginationEl = FALSE
    /\ slideWidth = 0
    /\ gap = "normal"
    /\ activeSlides = {}
    /\ MenuStart({0})
    /\ menuBtnEl = FALSE
    /\ menuOverlayEl = FALSE
    /\ NoRotation
    /\ NoAccordion
    /\ NoCalls
    /\ lastCall = NoCall

NextLoader ==
    \/ \E fn \in LoadFunctions :
          \E target \in TargetArgs(fn), path \in PathArgs(fn) :
              LoadCalled(fn, target, path)
    \/ \E i \in 1..MaxCalls, outcome \in FetchOutcomes : CallSettles(i, outcome)

SpecLoader == InitLoader /\ [][NextLoader]_vars

\* Every fetch ends: the pending call's continuation is run by the event loop.
SpecLoaderFair ==
    SpecLoader /\ \A i \in 1..MaxCalls : WF_vars(\E outcome \in FetchOutcomes :
                                                    CallSettles(i, outcome))

\* The accordion of a loaded page, from its initialization.
InitAccordion ==
    /\ PageSettled
    /\ elementPresent = Targets
    /\ AnnouncerStart
    /\ CarouselStart({0})
    /\ paginationEl = FALSE
    /\ slideWidth = 0
    /\ gap = "normal"
    /\ activeSlides = {}
    /\ MenuStart({0})
    /\ menuBtnEl = FALSE
    /\ menuOverlayEl = FALSE
    /\ NoRotation
    /\ AccordionStart(0..MaxItems)
    /\ NoCalls
    /\ lastCall = NoCall

NextAccordion ==
    \/ InitializeAccordions
    \/ \E i \in 1..MaxItems : AccordionActivated(i)
    \/ ClearTimerFires

SpecAccordion == InitAccordion /\ [][NextAccordion]_vars

\* The fade-in of the content elements of a loaded page, from its
\* initialization.
InitReveal ==
    /\ PageSettled
    /\ elementPresent = Targets
    /\ AnnouncerStart
    /\ CarouselStart({0})
    /\ paginationEl = FALSE
    /\ slideWidth = 0
    /\ gap = "normal"
    /\ activeSlides = {}
    /\ MenuStart({0})
    /\ menuBtnEl = FALSE
    /\ menuOverlayEl = FALSE
    /\ NoRotation
    /\ NoAccordion
    /\ calls = << >>
    /\ RevealStart(0..MaxElements)
    /\ lastCall = NoCall

NextReveal ==
    \/ InitializeFadeInAnimations
    \/ FadeInFrame
    \/ \E visible \in SUBSET (1..MaxElements) : ViewportChanges(visible)
    \/ \E intersecting \in SUBSET (1..MaxElements) :
          \E matching \in SUBSET intersecting :
             ObserverCallback(intersecting, matching)

SpecReveal == InitReveal /\ [][NextReveal]_vars

\* ------------------------------------------------------------------------
\* Fragment loader and page initialization: properties
\* ------------------------------------------------------------------------

\* Load l has run to its end.
Finished(l) == promise[l] \in {"true", "false"}

\* The element's content was replaced by the markup fetched for it.
ReplacedByMarkup(t) == innerHTML[t] = << Markup(Components[t]) >>

\* The element holds exactly the generic error block.
HoldsErrorBlock(t) == innerHTML[t] = << ErrorBlock(ComponentLoadError) >>

\* C1 (as stated): for every fragment spec, once loadComponent has finished,
\* exactly one of "content replaced by the fetched markup" and "content is
\* exactly the generic error block" holds.
C1_ExactlyOneOutcome ==
    \A t \in ComponentIds :
        Finished(t) => (ReplacedByMarkup(t) /\ ~HoldsErrorBlock(t))
                       \/ (HoldsErrorBlock(t) /\ ~ReplacedByMarkup(t))

\* C1 (amended): the same, for every fragment spec whose target element
\* exists in the page; a load whose target is missing finishes with neither.
C1_ExactlyOneOutcomeWhenTargetExists ==
    \A t \in ComponentIds :
        (Finished(t) /\ t \in elementPresent) =>
            (ReplacedByMarkup(t) /\ ~HoldsErrorBlock(t))
            \/ (HoldsErrorBlock(t) /\ ~ReplacedByMarkup(t))

C1_Witness ==
    /\ Finished("nav-placeholder") /\ HoldsErrorBlock("nav-placeholder")
    /\ Finished("footer-placeholder") /\ ReplacedByMarkup("footer-placeholder")

\* Every load initializeComponents issued has settled.
AllLoadsSettled == icState # "notCalled" /\ \A l \in LoadIds : promise[l] # "pending"

\* C2: once every issued fetch has settled initializeComponents resolves, and
\* it never rejects once the loads were issued, whatever their outcomes.
C2_InitializeComponentsResolves ==
    /\ [](icState = "rejected" => ComponentPromises = {})
    /\ []((icState = "awaiting" /\ AllLoadsSettled) => <>(icState = "resolved"))

C2_Witness ==
    /\ icState = "resolved"
    /\ ComponentPromises = LoadIds
    /\ fetchIssued = LoadIds
    /\ \A l \in LoadIds : promise[l] = "false"

\* C3: when the DOMContentLoaded handler has ended, the page is marked loaded.
C3_EndsLoaded == pc = "done" => loaded

C3_Witness == pc = "done" /\ loaded /\ icState = "rejected"

C27_ControllersAfterLoads ==
    /\ []((initialized \cup faulted # {} \/ rafPending) =>
            (AllLoadsSettled /\ icState = "resolved" /\ pc = "done"))
    /\ [][ /\ (pc # "done" /\ pc' = "done")
                => "carousel" \notin initialized' \cup faulted'
           /\ ("carousel" \notin initialized \cup faulted
               /\ "carousel" \in initialized' \cup faulted')
                => (/\ pc = "done" /\ rafPending /\ AllLoadsSettled
                    /\ initialized' \ {"carousel"} = CalledControllers \ faulted')
         ]_vars

C27_Witness ==
    /\ pc = "done" /\ ~rafPending /\ hasRotatingText
    /\ initialized = SyncControllers \cup {"carousel"}
    /\ promise["nav-placeholder"] = "false"
    /\ fetchOutcome["nav-placeholder"] = "httpError"
    /\ promise["cta-placeholder"] = "true"
    /\ \E l \in CardPaths : promise[l] = "false"

\* The card markup blocks of the card container, in display order.
CardBlocks ==
    SelectSeq(innerHTML[ProjectCardsList], LAMBDA b : b.kind = "markup")

\* The position of a card path in AppConfig.projectCards.
ListIndex(path) == CHOOSE k \in 1..Len(ProjectCards) : ProjectCards[k] = path

\* C4: once all card loads have settled, the cards are displayed in the order
\* of AppConfig.projectCards.
C4_CardsInListOrder ==
    (\A l \in CardPaths : Finished(l)) =>
        \A i, j \in 1..Len(CardBlocks) :
            i < j => ListIndex(CardBlocks[i].text) < ListIndex(CardBlocks[j].text)

\* The content a finished load of placeholder t leaves for the outcome of its
\* own fetch.
OwnOutcomeContent(t) ==
    IF fetchOutcome[t] = "ok"
    THEN << Markup(Components[t]) >>
    ELSE << ErrorBlock(ComponentLoadError) >>

\* C39: in whatever order the fetches settle, a finished placeholder load
\* leaves the content its own fetch outcome determines (the fetched markup on
\* success, the generic error block on failure), and no completion of another
\* load changes the content of a placeholder, pending or finished.
C39_PlaceholderLoadsIndependent ==
    /\ [](\A t \in ComponentIds \cap elementPresent :
              Finished(t) => innerHTML[t] = OwnOutcomeContent(t))
    /\ [][ \A t \in ComponentIds :
              (promise'[t] = promise[t]) => innerHTML'[t] = innerHTML[t] ]_vars

C39_Witness ==
    /\ elementPresent = Targets
    /\ fetchOutcome["nav-placeholder"] = "httpError"
    /\ fetchOutcome["footer-placeholder"] = "ok"
    /\ fetchOutcome["cta-placeholder"] = "networkError"
    /\ innerHTML["nav-placeholder"] = << ErrorBlock(ComponentLoadError) >>
    /\ innerHTML["footer-placeholder"] = << Markup("components/footer.html") >>
    /\ innerHTML["cta-placeholder"] = << ErrorBlock(ComponentLoadError) >>
    /\ \A l \in CardPaths : Finished(l)

\* ------------------------------------------------------------------------
\* Carousel: properties
\* ------------------------------------------------------------------------

\* C5: after goToSlide(i) with i in range, exactly the slide at i is marked
\* active and exactly the pagination control at i is marked active, whatever
\* width and gap the layout reports.
C5_GoToSlideMarksExactlyOne ==
    (carState = "ready" /\ lastCall.op = "goToSlide") =>
        /\ activeSlides = {lastCall.index}
        /\ activeDots = {lastCall.index}

\* C6: a second goToSlide(i), made right after a first one, changes neither
\* currentSlide nor the translation nor the active slide nor the active
\* pagination control.
C6_GoToSlideIdempotent ==
    [][ (lastCall.op = "goToSlide" /\ lastCall'.op = "goToSlide"
         /\ lastCall'.index = lastCall.index)
        => UNCHANGED << currentSlide, translateX, activeSlides, activeDots >> ]_vars

C6_Witness ==
    /\ lastCall.op = "goToSlide" /\ lastCall.again /\ lastCall.index = 1
    /\ currentSlide = 1 /\ activeSlides = {1} /\ activeDots = {1}
    /\ translateX = -320

\* C7: nextSlide at the last index and prevSlide at index 0 change nothing;
\* otherwise they move currentSlide by exactly +1 / -1; currentSlide stays in
\* [0, totalSlides).
C7_NextPrevBounded ==
    [][ /\ lastCall'.op = "nextSlide" =>
            IF currentSlide = totalSlides - 1
            THEN UNCHANGED << currentSlide, translateX, activeSlides, activeDots,
                              liveText, pendingClears >>
            ELSE currentSlide' = currentSlide + 1
        /\ lastCall'.op = "prevSlide" =>
            IF currentSlide = 0
            THEN UNCHANGED << currentSlide, translateX, activeSlides, activeDots,
                              liveText, pendingClears >>
            ELSE currentSlide' = currentSlide - 1
        /\ lastCall'.op \in {"nextSlide", "prevSlide"} =>
            (0 <= currentSlide' /\ currentSlide' < totalSlides') ]_vars

C7_Witness ==
    /\ lastCall.op = "nextSlide" /\ lastCall.again
    /\ totalSlides = 2 /\ currentSlide = 1

\* C8: an initialized carousel always has 0 <= currentSlide < totalSlides.
C8_CurrentSlideInRange ==
    carState = "ready" => (0 <= currentSlide /\ currentSlide < totalSlides)

C8_Witness ==
    /\ carState = "ready" /\ totalSlides = 3 /\ currentSlide = 2
    /\ resizeTimers = 1 /\ swipeResetTimers = 1 /\ lastCall.op = "nextSlide"

\* C9: at gesture-end, a gesture with horizontal delta -60 and vertical delta
\* 5 triggers "next slide", one with horizontal delta -30 navigates nowhere,
\* and a gesture navigates only if the magnitude of its horizontal delta
\* exceeds both its vertical delta and 50.
C9_SwipeClassification ==
    [][ lastCall'.op = "touchend" =>
          LET dx == lastCall'.dx
              dy == lastCall'.dy
          IN /\ (dx = -60 /\ dy = 5) =>
                    currentSlide' = IF currentSlide < totalSlides - 1
                                    THEN currentSlide + 1
                                    ELSE currentSlide
             /\ dx = -30 =>
                    UNCHANGED << currentSlide, translateX, activeSlides, activeDots,
                                 liveText, pendingClears >>
             /\ currentSlide' # currentSlide =>
                    /\ (dx > 50 \/ dx < -50)
                    /\ (IF dx < 0 THEN -dx ELSE dx) > (IF dy < 0 THEN -dy ELSE dy) ]_vars

C9_Witness ==
    /\ lastCall.op = "touchend" /\ lastCall.dx = -60 /\ lastCall.dy = 5
    /\ totalSlides = 3 /\ currentSlide = 1 /\ liveText = "Project 2 of 3"

\* ------------------------------------------------------------------------
\* Menu overlay: properties
\* ------------------------------------------------------------------------

\* C10: whenever the overlay goes from Open to Closed, focus is on the
\* element that had focus immediately before the overlay was opened (when an
\* element had it), whichever path opened it and whichever path closes it.
C10_FocusRestoredOnClose ==
    [][ (overlayActive /\ ~overlayActive' /\ focusBeforeOpen # "body")
        => activeElement' = focusBeforeOpen ]_vars

C10_Witness ==
    /\ lastCall.op = "escapeClose"
    /\ ~overlayActive
    /\ focusBeforeOpen = "rotatingText"
    /\ activeElement = "rotatingText"
    /\ linkCount = 3

\* C11 (as stated): for an open overlay with links [A, B, C], Shift+Tab with
\* focus on C moves the focus to A, and Tab with focus on A is not intercepted
\* and not redirected by the trap.
C11_TrapBackwardFromLastToFirst ==
    [][ (linkCount = 3 /\ overlayActive) =>
          /\ (lastCall'.op = "shiftTab" /\ activeElement = MenuLink(3))
                => activeElement' = MenuLink(1)
          /\ (lastCall'.op = "tab" /\ activeElement = MenuLink(1))
                => (lastCall'.index = 0 /\ activeElement' = MenuLink(2)) ]_vars

\* C11 (amended): for an open overlay with links [A, B, C], Shift+Tab with
\* focus on A moves the focus to C and Tab with focus on C moves it to A (both
\* intercepted); Shift+Tab with focus on C and Tab with focus on A are not
\* intercepted, the focus follows the key's default action (to B).
C11_TrapWrapsAtBoundaries ==
    [][ (linkCount = 3 /\ overlayActive) =>
          /\ (lastCall'.op = "shiftTab" /\ activeElement = MenuLink(1))
                => (lastCall'.index = 1 /\ activeElement' = MenuLink(3))
          /\ (lastCall'.op = "tab" /\ activeElement = MenuLink(3))
                => (lastCall'.index = 1 /\ activeElement' = MenuLink(1))
          /\ (lastCall'.op = "shiftTab" /\ activeElement = MenuLink(3))
                => (lastCall'.index = 0 /\ activeElement' = MenuLink(2))
          /\ (lastCall'.op = "tab" /\ activeElement = MenuLink(1))
                => (lastCall'.index = 0 /\ activeElement' = MenuLink(2)) ]_vars

C11_Witness ==
    /\ linkCount = 3 /\ overlayActive /\ trapAttached
    /\ lastCall.op = "shiftTab" /\ lastCall.index = 1
    /\ activeElement = MenuLink(3)

\* C15: every activation of the trigger button flips the overlay to the
\* opposite state, and after n consecutive activations from Closed the
\* overlay is Open exactly when n is odd.
C15_TriggerTogglesOverlay ==
    /\ [][ lastCall'.op \in {"triggerOpen", "triggerClose"}
             => overlayActive' = ~overlayActive ]_vars
    /\ [](triggerRun >= 1 => (overlayActive <=> triggerRun % 2 = 1))

C15_Witness ==
    /\ triggerRun = 3 /\ overlayActive /\ lastCall.op = "triggerOpen"
    /\ ariaExpanded = "true"

\* C16: after another controller invoked openMenuOverlay (activation of the
\* rotating heading or of the banner heading) the overlay is Open, whatever
\* its state before the call.
C16_OpenMenuOverlayOpens ==
    (menuState = "ready"
     /\ lastCall.op \in {"headingWhileOpen", "headingWhileClosed"})
        => overlayActive

\* C17: the focus-trap listener is attached to the overlay exactly when the
\* overlay is Open.
C17_TrapAttachedIffOpen == trapAttached <=> overlayActive

C17_Witness ==
    /\ overlayActive /\ trapAttached
    /\ triggerRun = -1 /\ lastCall.op = "headingWhileClosed"
    /\ bodyOverflow = "hidden" /\ pendingClears = 2

\* The four facts openMenu sets and closeMenu reverses.
OverlayFacts ==
    << overlayActive, btnActive, ariaExpanded = "true", bodyOverflow = "hidden" >>

\* C23: once the overlay controller is initialized and the overlay has been
\* opened a first time, the overlay's "active" class, the trigger's "active"
\* class, the trigger's expanded flag and the suspension of page scroll are
\* all true or all false together; a step that opens the overlay sets all
\* four, a step that closes it reverses all four.
C23_OverlayFactsInLockStep ==
    /\ []((menuState = "ready" /\ focusBeforeOpen # "none") =>
            OverlayFacts \in { << TRUE, TRUE, TRUE, TRUE >>,
                               << FALSE, FALSE, FALSE, FALSE >> })
    /\ [][ /\ (~overlayActive /\ overlayActive')
                => OverlayFacts' = << TRUE, TRUE, TRUE, TRUE >>
           /\ (overlayActive /\ ~overlayActive')
                => (OverlayFacts' = << FALSE, FALSE, FALSE, FALSE >>
                    /\ bodyOverflow' = "auto") ]_vars

C23_Witness ==
    /\ menuState = "ready" /\ focusBeforeOpen = "menuBtn"
    /\ lastCall.op = "escapeClose"
    /\ ~overlayActive /\ ~btnActive /\ ariaExpanded = "false" /\ bodyOverflow = "auto"

\* C38: a backdrop click or an Escape key-down that arrives while the
\* overlay is closed changes nothing: the overlay's state, the focus, the
\* page's scroll lock and the live region stay as they were.
C38_CloseOnlyFromOpen ==
    [][ lastCall'.op \in {"backdropClosed", "escapeIgnored"} =>
          UNCHANGED << overlayActive, btnActive, ariaExpanded, trapAttached,
                       activeElement, previousActiveElement, bodyOverflow,
                       liveText, pendingClears >> ]_vars

C12_CycleAdvancesByOne ==
    [][ (swapPending /\ ~swapPending') =>
          /\ currentIndex' = (currentIndex + 1) % Len(Industries)
          /\ rotatingWord' = Industries[currentIndex' + 1]
          /\ currentIndex = 0 =>
                (currentIndex' = 1 /\ rotatingWord' = "Remote Businesses") ]_vars

C12_Witness ==
    /\ currentIndex = 0 /\ rotatingWord = "Military & Defense"
    /\ fadeIn /\ ~swapPending /\ intervalTimers = 1 /\ ~isPaused

\* C13: when rotation was paused during the fade window of a tick and then
\* resumed, the word-swap timer of the interrupted tick does not swap the word.
C13_InterruptedTickDoesNotSwap ==
    [][ (swapInterrupted /\ ~isPaused /\ swapPending /\ ~swapPending')
          => UNCHANGED << currentIndex, rotatingWord >> ]_vars

\* C18: at most one first-tick timer and at most one repeating timer of the
\* rotating heading are live, and never both (no two cycles overlap).
C18_AtMostOneRotationCycle ==
    /\ firstTickTimers <= 1
    /\ intervalTimers <= 1
    /\ firstTickTimers + intervalTimers <= 1

C18_Witness ==
    /\ firstTickTimers = 1 /\ initialTimeout /\ ~isPaused
    /\ resumeTimers = 2 /\ currentIndex = 1 /\ overlayActive

\* The timer the initialTimeout handle names is pending.
FirstTickPending == initialTimeout /\ firstTickTimers > 0

\* The timer the rotationTimer handle names is pending.
RepeatingPending == rotationTimer /\ intervalTimers > 0

\* C40: the first-tick timer held in initialTimeout and the repeating timer
\* held in rotationTimer are never pending together, and neither is pending
\* while isPaused is true.
C40_TrackedTimersExclusiveAndOffWhilePaused ==
    /\ ~(FirstTickPending /\ RepeatingPending)
    /\ isPaused => (~FirstTickPending /\ ~RepeatingPending)

C40_Witness ==
    /\ rotState = "ready" /\ isPaused /\ hovering
    /\ currentIndex = 2
    /\ ~initialTimeout /\ ~rotationTimer
    /\ firstTickTimers = 0 /\ intervalTimers = 0

\* C21: from a pause until the next resume (while isPaused stays true),
\* currentIndex and the displayed word do not change.
C21_NoChangeWhilePaused ==
    [][ (isPaused /\ isPaused') => UNCHANGED << currentIndex, rotatingWord >> ]_vars

\* C22: a mouseleave while the heading still has the focus, and a blur while
\* the pointer still hovers over the heading, do not resume rotation.
C22_ResumeOnlyWhenNothingElsePauses ==
    [][ (/\ isPaused
         /\ \/ (hovering /\ ~hovering' /\ activeElement' = "rotatingText")
            \/ (activeElement = "rotatingText" /\ activeElement' # "rotatingText"
                /\ hovering'))
          => isPaused' ]_vars

\* C37: while the pointer is over the heading, the firing of an automatic
\* resume timer never clears the pause flag, be the timer left from a click
\* made before the pointer entered or set by a click made while hovering.
C37_ResumeTimerKeepsHoverPause ==
    [][ (hovering /\ isPaused /\ resumeTimers' < resumeTimers) => isPaused' ]_vars

\* An element initializeCarousel requires is absent, or no slide is rendered.
CarouselUnusable ==
    \/ ~hasCarousel
    \/ ProjectCardsList \notin elementPresent
    \/ ~paginationEl
    \/ slideCount = 0

\* C28: when the slide track, the card container or the pagination container
\* is absent, or no slide is rendered, initializeCarousel creates no
\* pagination control, makes no announcement and attaches no listener (no
\* state of the carousel or of the live region changes, then or later);
\* otherwise totalSlides is the rendered slide count at initialization and
\* never changes afterwards.
C28_InitNoOpOrTotalFixed ==
    /\ [][ (carState = "uninit" /\ carState' # "uninit") =>
             IF CarouselUnusable
             THEN /\ carState' = "skipped"
                  /\ UNCHANGED << totalSlides, currentSlide, translateX, activeSlides,
                                  dotCount, activeDots, liveText, pendingClears >>
             ELSE /\ carState' = "ready"
                  /\ totalSlides' = slideCount ]_vars
    /\ [][ carState = "skipped" =>
             UNCHANGED << carState, totalSlides, currentSlide, translateX,
                          activeSlides, dotCount, activeDots, liveText,
                          pendingClears >> ]_vars
    /\ [][ carState = "ready" => (carState' = "ready" /\ totalSlides' = totalSlides) ]_vars
    /\ [](carState = "ready" => (totalSlides = slideCount /\ totalSlides > 0))

C28_Witness ==
    /\ carState = "skipped" /\ hasCarousel /\ ~rafPending
    /\ ProjectCardsList \in elementPresent /\ slideCount = MaxSlides
    /\ ~paginationEl /\ dotCount = 0 /\ liveText = "" /\ pendingClears = 0

\* C29: goToSlide(index) with index < 0 or index >= totalSlides changes
\* nothing: the current index, the translation, the active slide, the active
\* pagination control and the announcement region stay as they were.
C29_OutOfRangeIsNoOp ==
    [][ (lastCall'.op = "goToSlideCall"
         /\ (lastCall'.index < 0 \/ lastCall'.index >= totalSlides))
          => UNCHANGED << currentSlide, translateX, activeSlides, activeDots,
                          liveText, pendingClears >> ]_vars

C29_Witness ==
    /\ carState = "ready" /\ totalSlides = 2
    /\ lastCall.op = "goToSlideCall" /\ lastCall.index = 2
    /\ currentSlide = 1 /\ activeSlides = {1} /\ activeDots = {1}
    /\ liveText = "Project 2 of 2" /\ pendingClears = 2

\* C30: once the carousel is initialized the pagination container holds
\* exactly totalSlides controls (one for each index in [0, totalSlides)), and
\* activating control i makes i the current index.
C30_OneControlPerSlide ==
    /\ [](carState = "ready" => (dotCount = totalSlides /\ totalSlides = slideCount))
    /\ [][ lastCall'.op = "goToSlide" =>
             (lastCall'.index \in 0..(totalSlides - 1)
              /\ currentSlide' = lastCall'.index) ]_vars

C30_Witness ==
    /\ carState = "ready" /\ totalSlides = MaxSlides /\ dotCount = MaxSlides
    /\ lastCall.op = "goToSlide" /\ lastCall.index = MaxSlides - 1
    /\ currentSlide = MaxSlides - 1 /\ activeDots = {MaxSlides - 1}

\* C31: a click on a slide that is delivered after the end of a gesture that
\* was classified as a drag, and before that gesture's reset timer has fired
\* (timers of equal delay fire in the order they were set, so a pending timer
\* means the latest gesture's timer is pending), never changes currentSlide.
C31_TrailingClickSuppressed ==
    [][ (lastCall'.op = "slideClick" /\ ~touching /\ classifiedDrag
         /\ swipeResetTimers > 0)
          => currentSlide' = currentSlide ]_vars

\* C33: at most one resize timer is pending at any time; a size-change
\* signal only restarts the timer; the timer's firing is one call
\* goToSlide(currentSlide), which leaves currentSlide unchanged and leaves no
\* resize timer pending; and a pending resize timer leads to that call.
C33_ResizeDebounced ==
    /\ [](resizeTimers <= 1)
    /\ [][ resizeTimers' > resizeTimers =>
             UNCHANGED << totalSlides, currentSlide, translateX, activeSlides,
                          activeDots, announcerVars >> ]_vars
    /\ [][ lastCall'.op = "resizeTimer" =>
             /\ resizeTimers = 1 /\ resizeTimers' = 0
             /\ lastCall'.index = currentSlide
             /\ currentSlide' = currentSlide
             /\ CarouselRec' = goToSlide(CarouselRec, currentSlide, slideWidth, gap) ]_vars
    /\ (resizeTimers > 0 ~> lastCall.op = "resizeTimer")

C33_Witness ==
    /\ lastCall.op = "resizeTimer" /\ lastCall.index = 1
    /\ resizeTimers = 0 /\ currentSlide = 1
    /\ activeSlides = {1} /\ activeDots = {1} /\ translateX = -300

\* C36: in every state after the carousel's initialization, in a carousel
\* with slides, the slide marked active is the one at currentSlide, and so is
\* the pagination control marked active when the pagination container exists;
\* and no step changes currentSlide without leaving these marks on the new
\* current slide.
C36_ActiveMarksFollowCurrentSlide ==
    /\ [](carState = "ready" /\ totalSlides > 0 =>
             /\ activeSlides = {currentSlide}
             /\ paginationEl => activeDots = {currentSlide})
    /\ [][ currentSlide' # currentSlide =>
             /\ activeSlides' = {currentSlide'}
             /\ paginationEl => activeDots' = {currentSlide'} ]_vars

\* C32: from the move that classifies a gesture as a drag until the end of
\* that gesture the drag flag stays set, whatever timers fire in between.
C32_DragStaysClassified ==
    (touching /\ classifiedDrag) => isSwiping

\* ------------------------------------------------------------------------
\* Direct calls of the loader: properties
\* ------------------------------------------------------------------------

\* v is a non-empty string.
IsNonEmptyString(v) == v.type = "string" /\ v.val # ""

\* The call a step makes has an argument that is not a non-empty string.
InvalidCallMade ==
    /\ Len(calls') = Len(calls) + 1
    /\ LET c == calls'[Len(calls')] IN
          ~IsNonEmptyString(c.target) \/ ~IsNonEmptyString(c.path)

\* C24: loadComponent and loadProjectCard called with an argument that is not
\* a non-empty string report failure at once, issue no network request and
\* change no DOM content, then and ever after.
C24_InvalidArgumentFailsFast ==
    /\ [][ InvalidCallMade =>
             /\ calls'[Len(calls')].result = "false"
             /\ ~calls'[Len(calls')].fetched
             /\ innerHTML' = innerHTML ]_vars
    /\ [](\A i \in DOMAIN calls :
            (~IsNonEmptyString(calls[i].target) \/ ~IsNonEmptyString(calls[i].path))
                => (calls[i].result = "false" /\ ~calls[i].fetched
                    /\ calls[i].outcome = "none"))

C24_Witness ==
    /\ Len(calls) = 2
    /\ calls[1].fn = "loadProjectCard" /\ calls[1].result = "pending"
    /\ calls[2].fn = "loadProjectCard" /\ calls[2].target = JsString(ProjectCardsList)
    /\ calls[2].path = JsNumber(42) /\ calls[2].result = "false"
    /\ innerHTML[ProjectCardsList] = << StaticMarkup(ProjectCardsList) >>

\* Call c has valid arguments and its target element does not exist.
TargetMissing(c) ==
    /\ IsNonEmptyString(c.target) /\ IsNonEmptyString(c.path)
    /\ c.target.val \notin elementPresent

\* The i-th call is waiting for its fetch.
CallPending(i) ==
    IF i \in DOMAIN calls THEN calls[i].result = "pending" ELSE FALSE

\* The fetch of the i-th call has ended and the call has returned.
CallRanToOutcome(i) ==
    IF i \in DOMAIN calls
    THEN calls[i].result \in {"true", "false"} /\ calls[i].outcome # "none"
    ELSE FALSE

\* C25: a call whose target element is missing reports failure (it returns
\* false, it does not throw) without issuing a fetch and without touching the
\* DOM or any other call; every other call in flight still runs to its own
\* outcome.
C25_MissingTargetFailsAlone ==
    /\ [][ (Len(calls') = Len(calls) + 1 /\ TargetMissing(calls'[Len(calls')])) =>
             /\ calls'[Len(calls')].result = "false"
             /\ ~calls'[Len(calls')].fetched
             /\ SubSeq(calls', 1, Len(calls)) = calls
             /\ innerHTML' = innerHTML ]_vars
    /\ [](\A i \in DOMAIN calls : TargetMissing(calls[i]) =>
              (calls[i].result = "false" /\ ~calls[i].fetched
               /\ calls[i].outcome = "none"))
    /\ \A i \in 1..MaxCalls : CallPending(i) ~> CallRanToOutcome(i)

C25_Witness ==
    /\ Len(calls) = 2
    /\ calls[1].fn = "loadComponent" /\ calls[1].target = JsString("nav-placeholder")
    /\ calls[1].result = "true" /\ calls[1].outcome = "ok"
    /\ innerHTML["nav-placeholder"] = << Markup(Components["nav-placeholder"]) >>
    /\ calls[2].fn = "loadComponent" /\ TargetMissing(calls[2])
    /\ calls[2].result = "false" /\ innerHTML["cta-placeholder"] = << >>

\* The error block a failed call of fn leaves, in the content its target had.
FailureContent(fn, content) ==
    IF fn = "loadComponent"
    THEN << ErrorBlock(ComponentLoadError) >>
    ELSE Append(content, ErrorBlock(ProjectCardLoadError))

\* C26: for a placeholder load and for a card load, a fetch that ends with a
\* non-success HTTP status has exactly the outcome of a fetch that fails at
\* the network level: the call returns false and the target ends with the
\* same content, which holds the same error block.
C26_HttpErrorAsNetworkError ==
    /\ [](\A i \in DOMAIN calls : calls[i].result = "pending" =>
              /\ CallFinish(calls[i], "httpError") = CallFinish(calls[i], "networkError")
              /\ CallFinish(calls[i], "httpError").result = "false")
    /\ [][ \A i \in DOMAIN calls :
              (/\ calls[i].result = "pending"
               /\ calls'[i].outcome \in {"httpError", "networkError"})
                 => /\ calls'[i].result = "false"
                    /\ innerHTML'[calls[i].target.val] =
                          FailureContent(calls[i].fn, innerHTML[calls[i].target.val]) ]_vars

C26_Witness ==
    /\ Len(calls) = 2
    /\ calls[1].fn = "loadProjectCard" /\ calls[1].outcome = "httpError"
    /\ calls[2].fn = "loadProjectCard" /\ calls[2].outcome = "networkError"
    /\ calls[1].result = "false" /\ calls[2].result = "false"
    /\ innerHTML[ProjectCardsList] =
          << StaticMarkup(ProjectCardsList), ErrorBlock(ProjectCardLoadError),
             ErrorBlock(ProjectCardLoadError) >>

\* ------------------------------------------------------------------------
\* Accordion: properties
\* ------------------------------------------------------------------------

C34_ExpandedAndHiddenInLockStep ==
    \A i \in accPanels : (i \in accExpanded <=> i \in accShown)

C34_Witness ==
    /\ accordionCount = 3 /\ accPanels = {1, 2}
    /\ lastCall.op = "accordionClick" /\ lastCall.index = 1
    /\ accExpanded = {3} /\ accShown = {}
    /\ liveText = "Accordion closed"

\* ------------------------------------------------------------------------
\* Fade-in of the content elements: properties
\* ------------------------------------------------------------------------

\* C35: FADE_IN_CLASS is added to each content element at most once; an
\* element that carries the class keeps it; and no element that carries the
\* class is a target of the observer: it got the class without being
\* observed, or it was unobserved in the step that gave it the class.
C35_RevealedOnceAndTerminal ==
    /\ [](\A e \in ContentElements : classAdds[e] <= 1)
    /\ [][fadeInClass \subseteq fadeInClass']_vars
    /\ [](fadeInClass \cap observing = {})
    /\ [][ \A e \in fadeInClass' \ fadeInClass :
              e \notin observing' /\ classAdds'[e] = 1 ]_vars

C35_Witness ==
    /\ elementsToAnimate = 3 /\ observerSupported
    /\ lastCall.op = "observerCallback" /\ lastCall.index = 1
    /\ fadeInClass = {1, 2} /\ observing = {3}
    /\ classAdds = (1 :> 1) @@ (2 :> 1) @@ (3 :> 0)

====
